---- MODULE Spec2Model ----
(***************************************************************************)
(* The proto-array fork-choice engine (eth2/lmd_ghost/src/proto_array.rs): *)
(* a flat array of block nodes plus a root -> index map, with the four     *)
(* public operations on_new_block, apply_score_changes, find_head and      *)
(* maybe_prune.                                                            *)
(*                                                                         *)
(* Rust indices are 0-based; nodes is a TLA+ sequence, so the node with    *)
(* Rust index i is nodes[i + 1].  Option<T> is a set with at most one      *)
(* element: None is {} and Some(x) is {x}.  A HashMap is a function whose  *)
(* DOMAIN is its key set.  A Hash256 is a natural number, compared as the  *)
(* hash is (byte-wise, big-endian); 0 is Hash256::zero().                  *)
(***************************************************************************)
EXTENDS Integers, Sequences, FiniteSets, TLC

\* ------------------------------------------------------------------ bounds

\* Spec calls the four operations with any arguments from the sets below, in
\* behaviours of at most MaxCalls calls on at most MaxNodes nodes. Roots are
\* 0..MaxRoot, epochs 0..MaxEpoch, every delta is within MaxDelta of 0 and no
\* weight goes above MaxWeight. VoteSpec grows a tree of up to MaxVoteNodes
\* blocks with epochs 0..MaxVoteEpoch. PruneThreshold is the engine's prune_threshold. u64 and i64 are
\* WeightBits bits wide. TrackSpec has MaxValidators validators, each with an
\* effective balance of at most MaxBalance. CoreSpec runs MaxThreads threads
\* that make MaxCoreCalls calls in all, with up to MaxBodyAttestations
\* attestations of known blocks in a block body. TrackSpec makes MaxTrackCalls
\* calls.
MaxNodes == 3
MaxRoot == 3
MaxEpoch == 1
MaxWeight == 1
MaxDelta == 1
MaxCalls == 4
MaxVoteNodes == 5
MaxVoteEpoch == 0
PruneThreshold == 1
WeightBits == 4
MaxValidators == 2
MaxBalance == 1
MaxThreads == 2
MaxCoreCalls == 2
MaxTrackCalls == 4
MaxBodyAttestations == 2

ZeroHash == 0

\* The root of the block the engine is seeded from.
genesis_block_root == 1

Roots == 0..MaxRoot
Epochs == 0..MaxEpoch
Deltas == (0 - MaxDelta)..MaxDelta

None == {}
Some(x) == {x}
unwrap(o) == CHOOSE x \in o : TRUE

VARIABLES
    pa,       \* the ProtoArray
    last,     \* the last public operation called and the status it returned
    calls,    \* how many public operations have been called
    overflow_checks,  \* whether the build traps integer overflow (the debug
                      \* profile) or wraps (the release profile)
    votes,    \* the vote tracker: each validator's latest message and the
              \* vote of theirs that was last applied
    balances, \* the effective balances the applied votes were counted with
    twin,     \* a second ProtoArray, given the blocks of pa in another order
    manager,  \* the checkpoint manager: its current and best checkpoints
    pc,       \* where each thread stands in the ForkChoice method it runs
    lock      \* the thread that holds the checkpoint manager's RwLock, if any

vars == <<pa, last, calls, overflow_checks, votes, balances, twin, manager, pc, lock>>

Ok(self) == [self |-> self, result |-> [status |-> "Ok", value |-> {}]]
Err(self, e, v) == [self |-> self, result |-> [status |-> e, value |-> v]]

\* ------------------------------------------------------------------ integers

u64_MAX == 2^WeightBits - 1
i64_MAX == 2^(WeightBits - 1) - 1
i64_MIN == 0 - 2^(WeightBits - 1)

\* The i64 with the bits of x.
wrapping_i64(x) == ((x - i64_MIN) % 2^WeightBits) + i64_MIN

\* `a as u64` for an i64 a.
as_u64(a) == a % 2^WeightBits

\* The back-propagation with the child's delta lost.
add_i64_dropped(a, b) == Some(a)

\* `a += b` on i64: None is the panic of a build with overflow checks.
add_i64(a, b) ==
    IF a + b >= i64_MIN /\ a + b <= i64_MAX
    THEN Some(a + b)
    ELSE IF overflow_checks THEN None ELSE Some(wrapping_i64(a + b))

\* i64::abs: i64::MIN has no absolute value in i64.
abs_i64(a) ==
    IF a = i64_MIN
    THEN IF overflow_checks THEN None ELSE Some(i64_MIN)
    ELSE Some(IF a < 0 THEN 0 - a ELSE a)

\* ------------------------------------------------------------------ ProtoNode

ProtoNode(root, parent, justified_epoch, finalized_epoch) ==
    [root |-> root, parent |-> parent,
     justified_epoch |-> justified_epoch, finalized_epoch |-> finalized_epoch,
     weight |-> 0, best_child |-> None, best_descendant |-> None]

\* is_better_than with a tie on the root lost.
is_better_than_strict(a, b) ==
    IF a.weight = b.weight THEN a.root > b.root ELSE a.weight >= b.weight

is_better_than(a, b) ==
    IF a.weight = b.weight THEN a.root >= b.root ELSE a.weight >= b.weight

\* ------------------------------------------------------------------ helpers

get(self, index) == self.nodes[index + 1]

\* The viability test with the justified epoch left out.
node_is_viable_finalized_only(self, node) ==
    node.finalized_epoch = self.finalized_epoch

node_is_viable_for_head(self, node) ==
    /\ node.justified_epoch = self.justified_epoch
    /\ node.finalized_epoch = self.finalized_epoch

\* set_best_child with the child's own best_descendant ignored.
set_best_child_shallow(self, parent_index, child_index) ==
    [self EXCEPT
        !.nodes[parent_index + 1].best_child = Some(child_index),
        !.nodes[parent_index + 1].best_descendant = Some(child_index)]

\* Callers pass indices below nodes.len(), so the two lookups succeed.
set_best_child(self, parent_index, child_index) ==
    LET child_best_descendant == get(self, child_index).best_descendant
    IN [self EXCEPT
            !.nodes[parent_index + 1].best_child = Some(child_index),
            !.nodes[parent_index + 1].best_descendant =
                IF child_best_descendant # None
                THEN child_best_descendant
                ELSE Some(child_index)]

\* HashMap::insert: an existing key keeps its place and gets the new value.
insert(map, key, value) ==
    [k \in DOMAIN map \cup {key} |-> IF k = key THEN value ELSE map[k]]

\* HashMap::get(..).copied()
lookup(map, key) == IF key \in DOMAIN map THEN Some(map[key]) ELSE None

\* ------------------------------------------------------------------ on_new_block

\* on_new_block with the comparison of the block's epochs with the engine's
\* left out.
on_new_block_any_epochs(self, root, parent, justified_epoch, finalized_epoch) ==
    LET node_index == Len(self.nodes)
        node == ProtoNode(
            root,
            IF parent = None THEN None ELSE lookup(self.indices, unwrap(parent)),
            justified_epoch,
            finalized_epoch)
        s1 == [self EXCEPT !.indices = insert(@, node.root, node_index),
                           !.nodes = Append(@, node)]
    IN  IF node.parent # None
        THEN LET parent_index == unwrap(node.parent)
                 parent_node == get(s1, parent_index)
             IN  IF parent_node.best_child # None
                 THEN IF is_better_than(node, get(s1, unwrap(parent_node.best_child)))
                      THEN Ok(set_best_child(s1, parent_index, node_index))
                      ELSE Ok(s1)
                 ELSE Ok(set_best_child(s1, parent_index, node_index))
        ELSE Ok(s1)

on_new_block(self, root, parent, justified_epoch, finalized_epoch) ==
    LET node_index == Len(self.nodes)
        node == ProtoNode(
            root,
            IF parent = None THEN None ELSE lookup(self.indices, unwrap(parent)),
            justified_epoch,
            finalized_epoch)
        s1 == [self EXCEPT !.indices = insert(@, node.root, node_index),
                           !.nodes = Append(@, node)]
    IN  IF /\ justified_epoch = s1.justified_epoch
           /\ finalized_epoch = s1.finalized_epoch
           /\ node.parent # None
        THEN LET parent_index == unwrap(node.parent)
                 parent_node == get(s1, parent_index)
             IN  IF parent_node.best_child # None
                 THEN IF is_better_than(node, get(s1, unwrap(parent_node.best_child)))
                      THEN Ok(set_best_child(s1, parent_index, node_index))
                      ELSE Ok(s1)
                 ELSE Ok(set_best_child(s1, parent_index, node_index))
        ELSE Ok(s1)

\* ------------------------------------------------------------------ apply_score_changes

\* Lines 121-205: the node at node_index has a parent; try to update the parent's
\* best-child and best-descendant.
update_parent(self, parent_index, node_index) ==
    LET node == get(self, node_index)
        parent_best_child == get(self, parent_index).best_child
    IN  IF ~node_is_viable_for_head(self, node)
        THEN IF self.ffg_update_required /\ parent_best_child = Some(node_index)
             THEN [self EXCEPT !.nodes[parent_index + 1].best_child = None,
                               !.nodes[parent_index + 1].best_descendant = None]
             ELSE self
        ELSE IF parent_best_child # None
        THEN LET parent_best_child_index == unwrap(parent_best_child)
                 best == get(self, parent_best_child_index)
             IN  IF parent_best_child_index = node_index
                 THEN set_best_child(self, parent_index, node_index)
                 ELSE IF \/ is_better_than(node, best)
                         \/ ~node_is_viable_for_head(self, best)
                      THEN set_best_child(self, parent_index, node_index)
                      ELSE self
        ELSE set_best_child(self, parent_index, node_index)

\* Lines 100-119: u64::checked_sub of |node_delta|, or u64::checked_add of
\* node_delta. The value is None on leaving the u64 range.
checked_apply(weight, node_delta) ==
    IF node_delta < 0
    THEN LET magnitude == abs_i64(node_delta) IN
         IF magnitude = None
         THEN [status |-> "panic", value |-> None]
         ELSE IF weight < as_u64(unwrap(magnitude))
         THEN [status |-> "Ok", value |-> None]
         ELSE [status |-> "Ok", value |-> Some(weight - as_u64(unwrap(magnitude)))]
    ELSE IF weight + as_u64(node_delta) > u64_MAX
    THEN [status |-> "Ok", value |-> None]
    ELSE [status |-> "Ok", value |-> Some(weight + as_u64(node_delta))]

\* The body of `for node_index in (0..self.nodes.len()).rev()`, from node_index
\* down to 0, and what follows the loop. An error, or a panic on integer
\* overflow, leaves the nodes above the failing one already updated.
RECURSIVE apply_loop(_, _, _)
apply_loop(self, deltas, node_index) ==
    IF node_index < 0
    THEN Ok([self EXCEPT !.ffg_update_required = FALSE])
    ELSE LET node == get(self, node_index) IN
         IF node.root = ZeroHash
         THEN apply_loop(self, deltas, node_index - 1)
         ELSE IF node_index >= Len(deltas)
         THEN Err(self, "InvalidNodeDelta", Some(node_index))
         ELSE LET node_delta == deltas[node_index + 1]
                  weight == checked_apply(node.weight, node_delta)
              IN  IF weight.status = "panic"
                  THEN Err(self, "panic", None)
                  ELSE IF weight.value = None
                  THEN Err(self, "DeltaOverflow", Some(node_index))
                  ELSE LET s1 == [self EXCEPT
                                    !.nodes[node_index + 1].weight = unwrap(weight.value)]
                       IN  IF node.parent = None
                           THEN apply_loop(s1, deltas, node_index - 1)
                           ELSE LET parent_index == unwrap(node.parent) IN
                                IF parent_index >= Len(deltas)
                                THEN Err(s1, "InvalidParentDelta", Some(parent_index))
                                ELSE LET parent_delta ==
                                             add_i64(deltas[parent_index + 1], node_delta)
                                     IN  IF parent_delta = None
                                         THEN Err(s1, "panic", None)
                                         ELSE apply_loop(
                                                update_parent(s1, parent_index, node_index),
                                                [deltas EXCEPT ![parent_index + 1] =
                                                     unwrap(parent_delta)],
                                                node_index - 1)

\* apply_score_changes with a flag that is already set kept for the call.
apply_score_changes_flag_kept(self, deltas, justified_epoch) ==
    IF Len(deltas) # Cardinality(DOMAIN self.indices)
    THEN Err(self, "InvalidDeltaLen", None)
    ELSE LET required == justified_epoch # self.justified_epoch
             s1 == [self EXCEPT !.ffg_update_required = @ \/ required,
                                !.justified_epoch = IF required THEN justified_epoch ELSE @]
         IN  apply_loop(s1, deltas, Len(s1.nodes) - 1)

apply_score_changes(self, deltas, justified_epoch) ==
    IF Len(deltas) # Cardinality(DOMAIN self.indices)
    THEN Err(self, "InvalidDeltaLen", None)
    ELSE LET required == justified_epoch # self.justified_epoch
             s1 == [self EXCEPT !.ffg_update_required = required,
                                !.justified_epoch = IF required THEN justified_epoch ELSE @]
         IN  apply_loop(s1, deltas, Len(s1.nodes) - 1)

\* ------------------------------------------------------------------ find_head

\* The start-node filter with the finalized epoch left out.
matches_justified_only(self, justified_node) ==
    justified_node.justified_epoch = self.justified_epoch

\* Lines 285-291: the start node must match the engine's epochs.
matches_filter(self, justified_node) ==
    ~ \/ justified_node.justified_epoch # self.justified_epoch
      \/ justified_node.finalized_epoch # self.finalized_epoch

find_head(self, justified_root) ==
    LET justified_index == lookup(self.indices, justified_root) IN
    IF justified_index = None
    THEN [status |-> "JustifiedNodeUnknown", value |-> Some(self.finalized_root)]
    ELSE IF unwrap(justified_index) >= Len(self.nodes)
    THEN [status |-> "InvalidJustifiedIndex", value |-> justified_index]
    ELSE LET justified_node == get(self, unwrap(justified_index)) IN
         IF ~matches_filter(self, justified_node)
         THEN [status |-> "InvalidFindHeadStartRoot", value |-> None]
         ELSE LET best_descendant_index ==
                      IF justified_node.best_descendant # None
                      THEN unwrap(justified_node.best_descendant)
                      ELSE unwrap(justified_index)
              IN  IF best_descendant_index >= Len(self.nodes)
                  THEN [status |-> "InvalidBestDescendant",
                        value |-> Some(best_descendant_index)]
                  ELSE [status |-> "Ok",
                        value |-> Some(get(self, best_descendant_index).root)]

\* ------------------------------------------------------------------ maybe_prune

\* usize::saturating_sub in the place of checked_sub.
saturating_sub(a, b) == IF a < b THEN Some(0) ELSE Some(a - b)

\* usize::checked_sub
checked_sub(a, b) == IF a < b THEN None ELSE Some(a - b)

\* The re-basing of one node with best_descendant left as it was.
shift_node_keep_descendant(node, finalized_index) ==
    LET n1 == IF node.parent # None
              THEN [node EXCEPT !.parent = checked_sub(unwrap(@), finalized_index)]
              ELSE node
        bc == IF node.best_child # None
              THEN checked_sub(unwrap(node.best_child), finalized_index)
              ELSE None
    IN  IF node.best_child # None /\ bc = None
        THEN [node |-> n1, err |-> "best_child"]
        ELSE [node |-> [n1 EXCEPT !.best_child = bc], err |-> "none"]

\* Lines 369-388 for one node. parent is adjusted first, then best_child, then
\* best_descendant; the first failing subtraction ends maybe_prune.
shift_node(node, finalized_index) ==
    LET n1 == IF node.parent # None
              THEN [node EXCEPT !.parent = checked_sub(unwrap(@), finalized_index)]
              ELSE node
        bc == IF node.best_child # None
              THEN checked_sub(unwrap(node.best_child), finalized_index)
              ELSE None
        bd == IF node.best_descendant # None
              THEN checked_sub(unwrap(node.best_descendant), finalized_index)
              ELSE None
    IN  IF node.best_child # None /\ bc = None
        THEN [node |-> n1, err |-> "best_child"]
        ELSE IF node.best_descendant # None /\ bd = None
        THEN [node |-> [n1 EXCEPT !.best_child = bc], err |-> "best_descendant"]
        ELSE [node |-> [n1 EXCEPT !.best_child = bc, !.best_descendant = bd],
              err |-> "none"]

\* `for node in self.nodes.iter_mut()` from position k (1-based) on.
RECURSIVE shift_nodes(_, _, _)
shift_nodes(self, finalized_index, k) ==
    IF k > Len(self.nodes)
    THEN Ok(self)
    ELSE LET r == shift_node(self.nodes[k], finalized_index)
             s1 == [self EXCEPT !.nodes[k] = r.node]
         IN  IF r.err # "none"
             THEN Err(s1, "IndexOverflow", None)
             ELSE shift_nodes(s1, finalized_index, k + 1)

\* Lines 361-365 given up part-way: `iter_mut` writes each entry in place, so
\* the entries it visited before the failing one stay reduced by
\* finalized_index. visited is the set of roots the HashMap's iteration order
\* put before the first entry below finalized_index.
part_shifted(indices, finalized_index, visited) ==
    [r \in DOMAIN indices |->
        IF r \in visited /\ indices[r] >= finalized_index
        THEN indices[r] - finalized_index
        ELSE indices[r]]

\* compact with the index-map entries of the dropped nodes left in the map.
compact_keys_kept(self, finalized_index, visited) ==
    LET kept == DOMAIN self.indices
        s1 == [self EXCEPT
                 !.indices = [r \in kept |-> self.indices[r]],
                 !.nodes = SubSeq(@, finalized_index + 1, Len(@))]
    IN  IF \E r \in kept : self.indices[r] < finalized_index
        THEN Err([s1 EXCEPT !.indices =
                      part_shifted(@, finalized_index, visited)],
                 "IndexOverflow", None)
        ELSE shift_nodes(
                 [s1 EXCEPT !.indices = [r \in kept |-> self.indices[r] - finalized_index]],
                 finalized_index, 1)

\* compact with the finalized node dropped along with the nodes before it.
compact_through(self, finalized_index, visited) ==
    LET removed == {self.nodes[k].root : k \in 1..(finalized_index + 1)}
        kept == DOMAIN self.indices \ removed
        s1 == [self EXCEPT
                 !.indices = [r \in kept |-> self.indices[r]],
                 !.nodes = SubSeq(@, finalized_index + 2, Len(@))]
    IN  IF \E r \in kept : self.indices[r] < finalized_index
        THEN Err([s1 EXCEPT !.indices =
                      part_shifted(@, finalized_index, visited)],
                 "IndexOverflow", None)
        ELSE shift_nodes(
                 [s1 EXCEPT !.indices = [r \in kept |-> self.indices[r] - finalized_index]],
                 finalized_index, 1)

\* Lines 347-390: drop the nodes before finalized_index and re-base every index.
\* A finalized index past the end of nodes stops the loop of lines 347-355 at
\* the first missing node, the keys of the nodes before it already removed.
\* A failing subtraction on a map value stops `iter_mut` part-way, at a place
\* the HashMap's iteration order decides: the entries of the roots in visited
\* came before it and stay reduced, the others are as they were.
compact(self, finalized_index, visited) ==
    LET removed == {self.nodes[k].root :
                        k \in {j \in 1..finalized_index : j <= Len(self.nodes)}}
        kept == DOMAIN self.indices \ removed
        s1 == [self EXCEPT
                 !.indices = [r \in kept |-> self.indices[r]],
                 !.nodes = SubSeq(@, finalized_index + 1, Len(@))]
    IN  IF finalized_index > Len(self.nodes)
        THEN Err([self EXCEPT !.indices = [r \in kept |-> self.indices[r]]],
                 "InvalidNodeIndex", Some(Len(self.nodes)))
        ELSE IF \E r \in kept : self.indices[r] < finalized_index
        THEN Err([s1 EXCEPT !.indices =
                      part_shifted(@, finalized_index, visited)],
                 "IndexOverflow", None)
        ELSE shift_nodes(
                 [s1 EXCEPT !.indices = [r \in kept |-> self.indices[r] - finalized_index]],
                 finalized_index, 1)

\* The refusals without the one for an earlier epoch.
finalized_change_error_no_revert(self, finalized_epoch, finalized_root) ==
    IF finalized_epoch = self.finalized_epoch /\ self.finalized_root # finalized_root
    THEN "InvalidFinalizedRootChange"
    ELSE "none"

\* Lines 323-330: the two refusals, "none" when the call goes on.
finalized_change_error(self, finalized_epoch, finalized_root) ==
    IF finalized_epoch = self.finalized_epoch /\ self.finalized_root # finalized_root
    THEN "InvalidFinalizedRootChange"
    ELSE IF finalized_epoch < self.finalized_epoch
    THEN "RevertedFinalizedEpoch"
    ELSE "none"

\* visited: the roots whose index-map entries `iter_mut` (lines 361-365)
\* reaches before the first entry that fails, should one fail.
maybe_prune(self, finalized_epoch, finalized_root, visited) ==
    IF finalized_change_error(self, finalized_epoch, finalized_root) # "none"
    THEN Err(self, finalized_change_error(self, finalized_epoch, finalized_root), None)
    ELSE LET s1 == IF finalized_epoch # self.finalized_epoch
                   THEN [self EXCEPT !.finalized_epoch = finalized_epoch,
                                     !.finalized_root = finalized_root,
                                     !.ffg_update_required = TRUE]
                   ELSE self
             finalized_index == lookup(s1.indices, s1.finalized_root)
         IN  IF finalized_index = None
             THEN Err(s1, "FinalizedNodeUnknown", Some(s1.finalized_root))
             ELSE IF unwrap(finalized_index) < s1.prune_threshold
             THEN Ok(s1)
             ELSE compact(s1, unwrap(finalized_index), visited)

\* ------------------------------------------------------------------ vote tracker

Validators == 0..(MaxValidators - 1)
Balances == 0..MaxBalance

\* A validator that has not voted: no applied vote, no latest message.
VoteTracker_default ==
    [current_root |-> ZeroHash, next_root |-> ZeroHash, next_epoch |-> 0]

\* The sum of f over the set S.
RECURSIVE sum_over(_, _)
sum_over(f, S) ==
    IF S = {} THEN 0
    ELSE LET x == CHOOSE y \in S : TRUE
         IN  f[x] + sum_over(f, S \ {x})

\* A vote replaces the latest message when its target epoch is not earlier.
process_attestation_latest_wins(vs, validator_index, block_root, target_epoch) ==
    IF block_root = ZeroHash
    THEN vs
    ELSE IF target_epoch >= vs[validator_index].next_epoch
    THEN [vs EXCEPT ![validator_index].next_root = block_root,
                    ![validator_index].next_epoch = target_epoch]
    ELSE vs

\* The latest message of a validator is inserted, or replaced by one with a
\* later target epoch; a vote for the zero root is ignored.
process_attestation(vs, validator_index, block_root, target_epoch) ==
    IF block_root = ZeroHash
    THEN vs
    ELSE IF \/ vs[validator_index] = VoteTracker_default
            \/ target_epoch > vs[validator_index].next_epoch
    THEN [vs EXCEPT ![validator_index].next_root = block_root,
                    ![validator_index].next_epoch = target_epoch]
    ELSE vs

\* The validators that have a latest message.
Voters(vs) == {v \in Validators : vs[v] # VoteTracker_default}

\* One delta per entry of the index map: for every validator with a latest
\* message, its old balance is taken from the node of its applied vote and its
\* new balance given to the node of its latest message; a root the engine does
\* not hold takes and gives nothing.
compute_deltas(indices, vs, old_balances, new_balances) ==
    [k \in 1..Cardinality(DOMAIN indices) |->
        sum_over([v \in Validators |->
                    IF lookup(indices, vs[v].next_root) = Some(k - 1)
                    THEN new_balances[v] ELSE 0], Voters(vs))
        - sum_over([v \in Validators |->
                    IF lookup(indices, vs[v].current_root) = Some(k - 1)
                    THEN old_balances[v] ELSE 0], Voters(vs))]

\* After compute_deltas the latest messages are the applied votes.
applied(vs) == [v \in Validators |-> [vs[v] EXCEPT !.current_root = vs[v].next_root]]

\* ------------------------------------------------------------------ state

\* ProtoArrayForkChoice::new builds the engine empty and registers the anchor
\* with on_new_block(finalized_root, None, justified_epoch, finalized_epoch).
EmptyArray(root) ==
    [prune_threshold |-> PruneThreshold,
     ffg_update_required |-> FALSE,
     justified_epoch |-> 0,
     finalized_epoch |-> 0,
     finalized_root |-> root,
     nodes |-> << >>,
     indices |-> [k \in {} |-> 0]]

\* The threads that call into ForkChoice.
Threads == 1..MaxThreads

\* ForkChoice::new: the genesis checkpoint is the anchor at the genesis state's
\* epoch with the genesis balances; the checkpoint manager starts from it.
genesis_checkpoint ==
    [epoch |-> 0, root |-> genesis_block_root, balances |-> [v \in Validators |-> 0]]

\* CheckpointManager::new: current and best are both the genesis checkpoint.
CheckpointManager_new(checkpoint) ==
    LET pair == [justified |-> checkpoint,
                 finalized |-> [epoch |-> checkpoint.epoch, root |-> checkpoint.root]]
    IN  [current |-> pair, best |-> pair]

Init ==
    /\ pa = on_new_block(EmptyArray(genesis_block_root), genesis_block_root, None, 0, 0).self
    /\ last = [op |-> "new", status |-> "Ok"]
    /\ calls = 0
    /\ overflow_checks \in BOOLEAN
    /\ votes = [v \in Validators |-> VoteTracker_default]
    /\ balances = [v \in Validators |-> 0]
    /\ twin = pa
    /\ manager = CheckpointManager_new(genesis_checkpoint)
    /\ pc = [t \in Threads |-> [at |-> "idle"]]
    /\ lock = None

\* One more public call, while the behaviour is short of MaxCalls of them.
Tick ==
    /\ calls < MaxCalls
    /\ calls' = calls + 1
    /\ UNCHANGED <<overflow_checks, votes, balances, twin, manager, pc, lock>>

\* The epochs a caller passes with a block: any justified and any finalized
\* epoch.
BlockEpochs == Epochs \X Epochs

\* What the HashMap's iteration order can put before the first index-map entry
\* that fails in the loop of lines 361-365: any set of roots. The finalized
\* index is a value of the index map (lines 337-340), any of them up to the
\* length of nodes (split_off takes the length itself). The order shows in no
\* other case, so where no such value leaves an entry below it in the map
\* there is one choice.
Visits(self) ==
    IF \E q \in DOMAIN self.indices, r \in DOMAIN self.indices :
           /\ self.indices[q] <= Len(self.nodes)
           /\ self.indices[r] < self.indices[q]
           /\ r \notin {self.nodes[k].root : k \in 1..self.indices[q]}
    THEN SUBSET DOMAIN self.indices
    ELSE {{}}

OnNewBlock ==
    /\ Tick
    /\ Len(pa.nodes) < MaxNodes
    /\ \E root \in Roots, parent \in {None} \cup {Some(r) : r \in Roots},
          e \in BlockEpochs :
           LET r == on_new_block(pa, root, parent, e[1], e[2])
           IN  /\ pa' = r.self
               /\ last' = [op |-> "on_new_block", status |-> r.result.status]

\* The delta vectors a caller passes: every vector with one entry per index-map
\* entry, and one vector that is one entry too long.
DeltaVecs(self) ==
    LET n == Cardinality(DOMAIN self.indices)
    IN  [1..n -> Deltas] \cup {[k \in 1..(n + 1) |-> 0]}

WeightsWithin(self, max) ==
    \A k \in 1..Len(self.nodes) : self.nodes[k].weight <= max

ApplyScoreChanges ==
    /\ Tick
    /\ \E deltas \in DeltaVecs(pa), justified_epoch \in Epochs :
        LET r == apply_score_changes(pa, deltas, justified_epoch)
        IN  /\ WeightsWithin(r.self, MaxWeight)
            /\ pa' = r.self
            /\ last' = [op |-> "apply_score_changes", status |-> r.result.status]

FindHead ==
    /\ Tick
    /\ \E justified_root \in Roots :
        last' = [op |-> "find_head", status |-> find_head(pa, justified_root).status]
    /\ UNCHANGED pa

MaybePrune ==
    /\ Tick
    /\ \E finalized_epoch \in Epochs, finalized_root \in Roots,
          visited \in Visits(pa) :
        LET r == maybe_prune(pa, finalized_epoch, finalized_root, visited)
        IN  /\ pa' = r.self
            /\ last' = [op |-> "maybe_prune", status |-> r.result.status]

\* One public call at a time: the engine is used under exclusive access.
Next ==
    \/ OnNewBlock
    \/ ApplyScoreChanges
    \/ FindHead
    \/ MaybePrune

Spec == Init /\ [][Next]_vars

\* ------------------------------------------------------------------ validated use

\* The engine called with validated blocks and votes: every block is new, has
\* a non-zero root and a parent the engine knows, and carries any pair of
\* epochs up to MaxVoteEpoch; every delta vector is what one validator's vote
\* makes of it, passed with the engine's justified epoch. No call bound is
\* needed here: the tree only grows, up to MaxVoteNodes.

VoteRoots == (ZeroHash + 1)..(ZeroHash + MaxVoteNodes)

VoteEpochs == (0..MaxVoteEpoch) \X (0..MaxVoteEpoch)

Indices(self) == 0..(Len(self.nodes) - 1)

children(self, i) == {c \in Indices(self) : get(self, c).parent = Some(i)}

RECURSIVE weight_sum(_, _)
weight_sum(self, S) ==
    IF S = {} THEN 0
    ELSE LET c == CHOOSE x \in S : TRUE
         IN  get(self, c).weight + weight_sum(self, S \ {c})

\* The weight voted at node i itself: its weight less its children's.
own_weight(self, i) == get(self, i).weight - weight_sum(self, children(self, i))

\* compute_deltas for one validator of balance w: a first vote for node b, or a
\* vote moved from node a to node b.
VoteDeltas(self) ==
    LET n == Len(self.nodes)
        first(b, w) == [k \in 1..n |-> IF k = b + 1 THEN w ELSE 0]
        moved(a, b, w) == [k \in 1..n |-> IF k = a + 1 THEN 0 - w
                                          ELSE IF k = b + 1 THEN w ELSE 0]
    IN  {first(b, w) : b \in Indices(self), w \in 1..MaxWeight}
        \cup {moved(x[1], x[2], x[3]) :
                x \in {y \in Indices(self) \X Indices(self) \X (1..MaxWeight) :
                         y[1] # y[2] /\ own_weight(self, y[1]) >= y[3]}}

ProcessBlock ==
    /\ Len(pa.nodes) < MaxVoteNodes
    /\ \E root \in VoteRoots \ DOMAIN pa.indices, parent \in DOMAIN pa.indices,
          e \in VoteEpochs :
           LET r == on_new_block(pa, root, Some(parent), e[1], e[2])
           IN  /\ pa' = r.self
               /\ last' = [op |-> "on_new_block", status |-> r.result.status]
    /\ UNCHANGED <<calls, overflow_checks, votes, balances, twin, manager, pc, lock>>

ApplyVote ==
    /\ \E deltas \in VoteDeltas(pa) :
           LET r == apply_score_changes(pa, deltas, pa.justified_epoch)
           IN  /\ WeightsWithin(r.self, MaxWeight)
               /\ pa' = r.self
               /\ last' = [op |-> "apply_score_changes", status |-> r.result.status]
    /\ UNCHANGED <<calls, overflow_checks, votes, balances, twin, manager, pc, lock>>

QueryHead ==
    /\ last' = [op |-> "find_head", status |-> find_head(pa, genesis_block_root).status]
    /\ UNCHANGED <<pa, calls, overflow_checks, votes, balances, twin, manager, pc, lock>>

VoteNext ==
    \/ ProcessBlock
    \/ ApplyVote
    \/ QueryHead

VoteSpec == Init /\ [][VoteNext]_vars

\* ------------------------------------------------------------------ tracked votes

\* The engine fed by the vote tracker: blocks arrive under known parents with
\* roots not seen before (each the successor of the last block's) and any pair
\* of epochs, validators attest to any block root, held by the engine, not yet
\* arrived, pruned or zero (the caller filters the zero root only), the deltas
\* of every apply_score_changes are those of compute_deltas, and finalization
\* advances to a block the engine holds.

\* The roots of the blocks: one more block than the array holds at a time.
TrackRoots == (ZeroHash + 1)..(ZeroHash + MaxNodes + 1)

TrackBlock ==
    /\ Len(pa.nodes) < MaxNodes
    /\ \E root \in {x \in TrackRoots : x = get(pa, Len(pa.nodes) - 1).root + 1},
          parent \in DOMAIN pa.indices, e \in BlockEpochs :
           LET r == on_new_block(pa, root, Some(parent), e[1], e[2])
           IN  /\ pa' = r.self
               /\ last' = [op |-> "on_new_block", status |-> r.result.status]
    /\ calls < MaxTrackCalls
    /\ calls' = calls + 1
    /\ UNCHANGED <<overflow_checks, votes, balances, twin, manager, pc, lock>>

Attest ==
    /\ \E v \in Validators, block_root \in TrackRoots \cup {ZeroHash},
          target_epoch \in Epochs :
           votes' = process_attestation(votes, v, block_root, target_epoch)
    /\ last' = [op |-> "process_attestation", status |-> "Ok"]
    /\ calls < MaxTrackCalls
    /\ calls' = calls + 1
    /\ UNCHANGED <<pa, overflow_checks, balances, twin, manager, pc, lock>>

\* A failing apply_score_changes leaves the tracker as it was.
Promote ==
    /\ \E new_balances \in [Validators -> Balances] :
           LET deltas == compute_deltas(pa.indices, votes, balances, new_balances)
               r == apply_score_changes(pa, deltas, pa.justified_epoch)
           IN  /\ pa' = r.self
               /\ last' = [op |-> "apply_score_changes", status |-> r.result.status]
               /\ votes' = IF r.result.status = "Ok" THEN applied(votes) ELSE votes
               /\ balances' = IF r.result.status = "Ok" THEN new_balances ELSE balances
    /\ calls < MaxTrackCalls
    /\ calls' = calls + 1
    /\ UNCHANGED <<overflow_checks, twin, manager, pc, lock>>

TrackPrune ==
    /\ pa.finalized_epoch < MaxEpoch
    /\ \E finalized_root \in DOMAIN pa.indices, visited \in Visits(pa) :
           LET r == maybe_prune(pa, pa.finalized_epoch + 1, finalized_root, visited)
           IN  /\ pa' = r.self
               /\ last' = [op |-> "maybe_prune", status |-> r.result.status]
    /\ calls < MaxTrackCalls
    /\ calls' = calls + 1
    /\ UNCHANGED <<overflow_checks, votes, balances, twin, manager, pc, lock>>

TrackNext ==
    \/ TrackBlock
    \/ Attest
    \/ Promote
    \/ TrackPrune

TrackSpec == Init /\ [][TrackNext]_vars

\* ------------------------------------------------------------------ extreme deltas

\* The engine with blocks of distinct non-zero roots under known parents, and
\* delta vectors that reach both ends of the i64 range.

WideDeltas == {i64_MIN, 0 - 1, 0, 1, i64_MAX}

WideVecs(self) == [1..Len(self.nodes) -> WideDeltas]

WideBlock ==
    /\ Tick
    /\ Len(pa.nodes) < MaxNodes
    /\ \E root \in (Roots \ {ZeroHash}) \ DOMAIN pa.indices, parent \in DOMAIN pa.indices :
           LET r == on_new_block(pa, root, Some(parent),
                                 pa.justified_epoch, pa.finalized_epoch)
           IN  /\ pa' = r.self
               /\ last' = [op |-> "on_new_block", status |-> r.result.status]

WideApply ==
    /\ Tick
    /\ \E deltas \in WideVecs(pa) :
           LET r == apply_score_changes(pa, deltas, pa.justified_epoch)
           IN  /\ pa' = r.self
               /\ last' = [op |-> "apply_score_changes", status |-> r.result.status]

WideNext ==
    \/ WideBlock
    \/ WideApply

WideSpec == Init /\ [][WideNext]_vars

\* ------------------------------------------------------------------ insertion orders

\* Two engines given the same blocks: pa takes them as they arrive, twin takes
\* them afterwards in any order that puts parents before children; then both
\* take the same weight changes, each delta placed at its root's index.

\* The orders in which the blocks of self after the anchor can be inserted.
insertion_orders(self) ==
    LET n == Len(self.nodes) - 1
    IN  {o \in [1..n -> 1..n] :
            /\ \A a, b \in 1..n : o[a] = o[b] => a = b
            /\ \A a \in 1..n :
                  \A p \in get(self, o[a]).parent :
                      p = 0 \/ \E b \in 1..(a - 1) : o[b] = p}

\* on_new_block of the blocks of from, in the given order, from the k-th on.
RECURSIVE insert_in_order(_, _, _, _)
insert_in_order(self, from, order, k) ==
    IF k > Len(from.nodes) - 1
    THEN self
    ELSE LET node == get(from, order[k])
             parent == {get(from, p).root : p \in node.parent}
         IN  insert_in_order(
                 on_new_block(self, node.root, parent,
                              node.justified_epoch, node.finalized_epoch).self,
                 from, order, k + 1)

\* The delta vector that has, at the index of every root, that root's delta.
deltas_by_root(self, change) ==
    [k \in 1..Len(self.nodes) |-> change[self.nodes[k].root]]

OrderBlock ==
    /\ Len(pa.nodes) < MaxNodes
    /\ Len(twin.nodes) = 1
    /\ \E root \in (Roots \ {ZeroHash}) \ DOMAIN pa.indices, parent \in DOMAIN pa.indices :
           LET r == on_new_block(pa, root, Some(parent),
                                 pa.justified_epoch, pa.finalized_epoch)
           IN  /\ pa' = r.self
               /\ last' = [op |-> "on_new_block", status |-> r.result.status]
    /\ UNCHANGED <<calls, overflow_checks, votes, balances, twin, manager, pc, lock>>

OrderTwin ==
    /\ Len(pa.nodes) > 1
    /\ Len(twin.nodes) = 1
    /\ \E order \in insertion_orders(pa) :
           twin' = insert_in_order(twin, pa, order, 1)
    /\ last' = [op |-> "on_new_block", status |-> "Ok"]
    /\ UNCHANGED <<pa, calls, overflow_checks, votes, balances, manager, pc, lock>>

\* The weight changes are those of votes: no node's own weight goes negative.
OrderApply ==
    /\ calls < MaxCalls
    /\ calls' = calls + 1
    /\ Len(twin.nodes) = Len(pa.nodes)
    /\ Len(pa.nodes) > 1
    /\ \E change \in [DOMAIN pa.indices -> Deltas] :
           LET r == apply_score_changes(pa, deltas_by_root(pa, change), pa.justified_epoch)
               q == apply_score_changes(twin, deltas_by_root(twin, change), twin.justified_epoch)
           IN  /\ r.result.status = "Ok"
               /\ WeightsWithin(r.self, MaxWeight)
               /\ \A i \in Indices(r.self) : own_weight(r.self, i) >= 0
               /\ pa' = r.self
               /\ twin' = q.self
               /\ last' = [op |-> "apply_score_changes", status |-> q.result.status]
    /\ UNCHANGED <<overflow_checks, votes, balances, manager, pc, lock>>

OrderNext ==
    \/ OrderBlock
    \/ OrderTwin
    \/ OrderApply

OrderSpec == Init /\ [][OrderNext]_vars

\* ------------------------------------------------------------------ serialization

\* The engine's serialized form: the six fields of the wire form.
as_bytes(self) ==
    [prune_threshold |-> self.prune_threshold,
     justified_epoch |-> self.justified_epoch,
     finalized_epoch |-> self.finalized_epoch,
     finalized_root |-> self.finalized_root,
     nodes |-> self.nodes,
     indices |-> self.indices]

\* The engine rebuilt from its serialized form. The wire form has no
\* ffg_update_required, so the decoder supplies one.
from_bytes(bytes, ffg_update_required) ==
    [prune_threshold |-> bytes.prune_threshold,
     ffg_update_required |-> ffg_update_required,
     justified_epoch |-> bytes.justified_epoch,
     finalized_epoch |-> bytes.finalized_epoch,
     finalized_root |-> bytes.finalized_root,
     nodes |-> bytes.nodes,
     indices |-> bytes.indices]

\* The ForkChoice of a state: its backend, anchor root and checkpoint manager.
ForkChoice(backend, checkpoint_manager) ==
    [backend |-> backend,
     genesis_block_root |-> genesis_block_root,
     checkpoint_manager |-> checkpoint_manager]

as_ssz_container(self) ==
    [genesis_block_root |-> self.genesis_block_root,
     checkpoint_manager |-> self.checkpoint_manager,
     backend_bytes |-> as_bytes(self.backend)]

from_ssz_container(ssz_container, ffg_update_required) ==
    [backend |-> from_bytes(ssz_container.backend_bytes, ffg_update_required),
     genesis_block_root |-> ssz_container.genesis_block_root,
     checkpoint_manager |-> ssz_container.checkpoint_manager]

\* ------------------------------------------------------------------ ForkChoice

\* The zero root passed on as it is.
remove_alias_kept(root) == root

\* The closure of ForkChoice::find_head: the zero root stands for the root the
\* ForkChoice was instantiated with.
remove_alias(root) ==
    IF root = ZeroHash THEN genesis_block_root ELSE root

\* The node at index i, or any node the parent links lead to from it, has the
\* given root.
RECURSIVE descends_from(_, _, _)
descends_from(self, root, i) ==
    \/ get(self, i).root = root
    \/ \E p \in get(self, i).parent : p < i /\ descends_from(self, root, p)

\* CheckpointManager::process_state: the justified checkpoint of the state
\* replaces best.justified when its epoch is greater, or equal with a root
\* that descends from best.justified's in the engine; the finalized checkpoint
\* replaces best.finalized when its epoch is greater.
process_state(m, self, state) ==
    LET on_chain == \E i \in lookup(self.indices, state.justified.root) :
                        descends_from(self, m.best.justified.root, i)
        beats == \/ state.justified.epoch > m.best.justified.epoch
                 \/ /\ state.justified.epoch = m.best.justified.epoch
                    /\ on_chain
        m1 == IF beats THEN [m EXCEPT !.best.justified = state.justified] ELSE m
    IN  IF state.finalized.epoch > m1.best.finalized.epoch
        THEN [m1 EXCEPT !.best.finalized = state.finalized]
        ELSE m1

\* CheckpointManager::maybe_update: best is promoted into current when the
\* current epoch is past best.justified's. The engine is not among its
\* arguments: the deltas of the promoted balances are applied by the
\* find_head of the backend.
maybe_update(m, current_epoch) ==
    IF current_epoch > m.best.justified.epoch
    THEN [m EXCEPT !.current = m.best]
    ELSE m

\* ProtoArrayForkChoice::find_head: the deltas between the applied votes at the
\* old balances and the latest messages at the justified balances are applied
\* to the engine, which then finds the head. A failing apply_score_changes
\* leaves the tracker as it was.
backend_find_head(self, vs, old_balances, justified_epoch, justified_root, finalized_epoch, justified_state_balances) ==
    LET deltas == compute_deltas(self.indices, vs, old_balances, justified_state_balances)
        r == apply_score_changes(self, deltas, justified_epoch)
    IN  IF r.result.status # "Ok"
        THEN [self |-> r.self, votes |-> vs, balances |-> old_balances,
              applied |-> r.result.status,
              result |-> [status |-> r.result.status, value |-> None]]
        ELSE [self |-> r.self, votes |-> applied(vs),
              balances |-> justified_state_balances,
              applied |-> "Ok",
              result |-> find_head(r.self, justified_root)]

\* find_head with the promotion turned round: current is copied into best.
ForkChoice_find_head_demoting(m, self, vs, old_balances, current_epoch) ==
    LET m1 == [m EXCEPT !.best = m.current]
        r == backend_find_head(self, vs, old_balances,
                               m1.current.justified.epoch,
                               remove_alias(m1.current.justified.root),
                               m1.current.finalized.epoch,
                               m1.current.justified.balances)
    IN  [manager |-> m1, self |-> r.self, votes |-> r.votes, balances |-> r.balances,
         applied |-> r.applied, result |-> r.result]

\* ForkChoice::find_head under the write lock of the checkpoint manager:
\* maybe_update, then the find_head of the backend with the arguments taken
\* from the manager's current record.
ForkChoice_find_head(m, self, vs, old_balances, current_epoch) ==
    LET m1 == maybe_update(m, current_epoch)
        r == backend_find_head(self, vs, old_balances,
                               m1.current.justified.epoch,
                               remove_alias(m1.current.justified.root),
                               m1.current.finalized.epoch,
                               m1.current.justified.balances)
    IN  [manager |-> m1, self |-> r.self, votes |-> r.votes, balances |-> r.balances,
         applied |-> r.applied, result |-> r.result]

\* ForkChoice::contains_block.
contains_block(self, block_root) == block_root \in DOMAIN self.indices

\* ForkChoice::latest_message.
latest_message(vs, validator_index) ==
    IF vs[validator_index] = VoteTracker_default
    THEN None
    ELSE Some(<<vs[validator_index].next_root, vs[validator_index].next_epoch>>)

\* An attestation to the zero root resolved like any other.
ForkChoice_process_attestation_aliased(block_hash, resolved) ==
    IF remove_alias(block_hash) # ZeroHash
    THEN IF resolved.status = "Ok"
         THEN [status |-> "Ok", todo |-> resolved.value,
               block_hash |-> remove_alias(block_hash)]
         ELSE [status |-> resolved.status, todo |-> {}, block_hash |-> block_hash]
    ELSE [status |-> "Ok", todo |-> {}, block_hash |-> block_hash]

\* ForkChoice::process_attestation up to its loop: an attestation to the zero
\* hash is ignored; for any other the attesting validators are resolved, and a
\* failing resolution is returned. todo holds the validators the backend is
\* then called for, one call each with block_hash.
ForkChoice_process_attestation(block_hash, resolved) ==
    IF block_hash # ZeroHash
    THEN IF resolved.status = "Ok"
         THEN [status |-> "Ok", todo |-> resolved.value, block_hash |-> block_hash]
         ELSE [status |-> resolved.status, todo |-> {}, block_hash |-> block_hash]
    ELSE [status |-> "Ok", todo |-> {}, block_hash |-> block_hash]

\* process_block, one attestation of the body: it is processed when the
\* backend holds its block, and passed over otherwise.
body_attestation(self, block_hash, resolved) ==
    IF contains_block(self, block_hash)
    THEN ForkChoice_process_attestation(block_hash, resolved)
    ELSE [status |-> "Ok", todo |-> {}, block_hash |-> block_hash]

\* ProtoArrayForkChoice::maybe_prune, called with the finalized root alone: the
\* engine is pruned at the finalized checkpoint of the manager's current
\* record.
backend_maybe_prune(self, finalized_epoch, finalized_root, visited) ==
    maybe_prune(self, finalized_epoch, finalized_root, visited)

\* ------------------------------------------------------------------ threads

\* ForkChoice called from MaxThreads threads, MaxCoreCalls calls in all. The
\* checkpoint manager is behind an RwLock: a thread takes it in one step and
\* works under it in the next; the guard of a statement is dropped at its end.
\* The backend is called without that lock, and every call of the backend is a
\* step of its own: other threads run between two of them.

\* The epochs the host chain's slot can lie in.
ChainEpochs == 0..(MaxEpoch + 1)

\* The post-states of blocks with the given epochs: the justified and the
\* finalized checkpoint at one of the blocks the engine holds, with every
\* validator at the greatest effective balance.
BeaconStates(self, epochs) ==
    {[justified |-> [epoch |-> epochs[1], root |-> root,
                     balances |-> [v \in Validators |-> MaxBalance]],
      finalized |-> [epoch |-> epochs[2], root |-> root]] :
        root \in DOMAIN self.indices}

\* The attestations of a block body or of the network: to the zero hash, to a
\* block the engine holds, or to the block after the last.
Attestations(self) ==
    [beacon_block_root : {ZeroHash} \cup DOMAIN self.indices
                           \cup {get(self, Len(self.nodes) - 1).root + 1},
     target_epoch : Epochs]

\* The outcomes of get_attesting_indices: any set of validators, or the error
\* of a bitfield that does not fit the committee.
Resolutions ==
    {[status |-> "Ok", value |-> S] : S \in SUBSET Validators}
        \cup {[status |-> "BeaconStateError", value |-> {}]}

\* chain.slot(): the epoch of the current slot, or the error of a slot that
\* cannot be read.
SlotReadings ==
    {[status |-> "Ok", value |-> e] : e \in ChainEpochs}
        \cup {[status |-> "UnableToReadSlot", value |-> 0]}

\* The outcomes of CheckpointManager::process_state: the manager after it, or
\* the error of a lookup that misses, which leaves the manager as it was.
process_state_outcomes(m, self, state) ==
    {[status |-> "Ok", manager |-> process_state(m, self, state)],
     [status |-> "MissingState", manager |-> m]}

\* The outcomes of CheckpointManager::maybe_update: the manager after it, or
\* the error of a lookup that misses, which leaves the manager as it was.
maybe_update_outcomes(m, current_epoch) ==
    {[status |-> "Ok", manager |-> maybe_update(m, current_epoch)],
     [status |-> "MissingState", manager |-> m]}

\* The outcomes of the backend's process_attestation: the vote tracker after
\* it, or an error, which leaves the tracker as it was.
backend_process_attestation(vs, validator_index, block_hash, target_epoch) ==
    {[status |-> "Ok",
      votes |-> process_attestation(vs, validator_index, block_hash, target_epoch)],
     [status |-> "BackendError", votes |-> vs]}

idle == [at |-> "idle"]

\* A call begins: one more of the MaxCoreCalls.
Begin(t) ==
    /\ pc[t] = idle
    /\ calls < MaxCoreCalls
    /\ calls' = calls + 1

\* process_block: self.checkpoint_manager.write() of the first statement. The
\* thread keeps the epochs of the block's post-state.
PbLockProcessState(t) ==
    /\ Begin(t)
    /\ lock = None
    /\ Len(pa.nodes) < MaxNodes
    /\ \E epochs \in BlockEpochs :
           pc' = [pc EXCEPT ![t] = [at |-> "process_state", epochs |-> epochs]]
    /\ lock' = Some(t)
    /\ UNCHANGED <<pa, last, overflow_checks, votes, balances, twin, manager>>

\* process_block: process_state, and the end of the first statement. An error
\* of process_state is returned at once.
PbProcessState(t) ==
    /\ pc[t].at = "process_state"
    /\ lock = Some(t)
    /\ \E state \in BeaconStates(pa, pc[t].epochs) :
       \E r \in process_state_outcomes(manager, pa, state) :
           /\ manager' = r.manager
           /\ IF r.status = "Ok"
              THEN /\ pc' = [pc EXCEPT ![t].at = "lock_maybe_update"]
                   /\ last' = last
              ELSE /\ pc' = [pc EXCEPT ![t] = idle]
                   /\ last' = [op |-> "process_block", status |-> r.status]
    /\ lock' = None
    /\ UNCHANGED <<pa, calls, overflow_checks, votes, balances, twin>>

\* process_block: self.checkpoint_manager.write() of the second statement.
PbLockMaybeUpdate(t) ==
    /\ pc[t].at = "lock_maybe_update"
    /\ lock = None
    /\ lock' = Some(t)
    /\ pc' = [pc EXCEPT ![t].at = "maybe_update"]
    /\ UNCHANGED <<pa, last, calls, overflow_checks, votes, balances, twin, manager>>

\* process_block: chain.slot() and maybe_update, and the end of the second
\* statement. An error of either is returned at once; with the slot unread
\* maybe_update is not called.
PbMaybeUpdate(t) ==
    /\ pc[t].at = "maybe_update"
    /\ lock = Some(t)
    /\ \E slot \in SlotReadings :
           IF slot.status # "Ok"
           THEN /\ manager' = manager
                /\ pc' = [pc EXCEPT ![t] = idle]
                /\ last' = [op |-> "process_block", status |-> slot.status]
           ELSE \E r \in maybe_update_outcomes(manager, slot.value) :
                    /\ manager' = r.manager
                    /\ IF r.status = "Ok"
                       THEN /\ pc' = [pc EXCEPT ![t] =
                                        [at |-> "attestations",
                                         epochs |-> pc[t].epochs, turns |-> 0]]
                            /\ last' = last
                       ELSE /\ pc' = [pc EXCEPT ![t] = idle]
                            /\ last' = [op |-> "process_block", status |-> r.status]
    /\ lock' = None
    /\ UNCHANGED <<pa, calls, overflow_checks, votes, balances, twin>>

\* The thread in the loop of a process_attestation: the attestation, the root
\* the backend is called with, and the validators it is yet to be called for.
\* Called by process_block, it keeps the epochs of the block's post-state and
\* the number of attestations of the body processed before.
in_loop(a, r, then, epochs, turns) ==
    [at |-> "process_attestation", attestation |-> a, block_hash |-> r.block_hash,
     todo |-> r.todo, then |-> then, epochs |-> epochs, turns |-> turns]

\* process_block, between two attestations of the body, one more of them
\* processed.
next_attestation(epochs, turns) ==
    [at |-> "attestations", epochs |-> epochs, turns |-> turns + 1]

\* process_block: one turn of the loop over the attestations of the body, or
\* its end. The backend is asked whether it holds the attestation's block; if
\* it does not, the attestation is passed over; if it does, the attestation is
\* processed, and a failing resolution ends process_block. A body has at most
\* MaxBodyAttestations attestations of blocks the backend holds.
PbAttestations(t) ==
    /\ pc[t].at = "attestations"
    /\ \/ /\ pc' = [pc EXCEPT ![t] = [at |-> "process_block",
                                      epochs |-> pc[t].epochs]]
          /\ last' = last
       \/ \E a \in Attestations(pa), resolved \in Resolutions :
              LET r == body_attestation(pa, a.beacon_block_root, resolved)
              IN  IF ~contains_block(pa, a.beacon_block_root)
                  THEN UNCHANGED <<pc, last>>
                  ELSE /\ pc[t].turns < MaxBodyAttestations
                       /\ IF r.status # "Ok"
                          THEN /\ pc' = [pc EXCEPT ![t] = idle]
                               /\ last' = [op |-> "process_block",
                                           status |-> r.status]
                          ELSE /\ pc' = [pc EXCEPT ![t] =
                                           IF r.todo = {}
                                           THEN next_attestation(pc[t].epochs,
                                                                 pc[t].turns)
                                           ELSE in_loop(a, r, "attestations",
                                                        pc[t].epochs, pc[t].turns)]
                               /\ last' = last
    /\ UNCHANGED <<pa, calls, overflow_checks, votes, balances, twin, manager, lock>>

\* process_block: the process_block of the backend, with the epochs of the
\* block's post-state. The block is the one after the last, or the last one
\* delivered again.
PbBackend(t) ==
    /\ pc[t].at = "process_block"
    /\ \E block_root \in {x \in TrackRoots :
                             x - get(pa, Len(pa.nodes) - 1).root \in {0, 1}},
          parent_root \in DOMAIN pa.indices :
           LET r == on_new_block(pa, block_root, Some(parent_root),
                                 pc[t].epochs[1], pc[t].epochs[2])
           IN  /\ pa' = r.self
               /\ last' = [op |-> "process_block", status |-> r.result.status]
    /\ pc' = [pc EXCEPT ![t] = idle]
    /\ UNCHANGED <<calls, overflow_checks, votes, balances, twin, manager, lock>>

\* find_head: self.checkpoint_manager.write().
FhLock(t) ==
    /\ Begin(t)
    /\ lock = None
    /\ lock' = Some(t)
    /\ pc' = [pc EXCEPT ![t] = [at |-> "find_head"]]
    /\ UNCHANGED <<pa, last, overflow_checks, votes, balances, twin, manager>>

\* What a find_head returns that has not called the backend.
find_head_error(status) ==
    [op |-> "find_head", status |-> status, applied |-> "none"]

\* find_head: the rest of it, under the lock. An error of chain.slot() or of
\* maybe_update is returned at once, without the find_head of the backend.
FhFindHead(t) ==
    /\ pc[t].at = "find_head"
    /\ lock = Some(t)
    /\ \E slot \in SlotReadings :
           IF slot.status # "Ok"
           THEN /\ last' = find_head_error(slot.status)
                /\ UNCHANGED <<manager, pa, votes, balances>>
           ELSE \/ /\ last' = find_head_error("MissingState")
                   /\ UNCHANGED <<manager, pa, votes, balances>>
                \/ LET r == ForkChoice_find_head(manager, pa, votes, balances,
                                                 slot.value)
                   IN  /\ manager' = r.manager
                       /\ pa' = r.self
                       /\ votes' = r.votes
                       /\ balances' = r.balances
                       /\ last' = [op |-> "find_head", status |-> r.result.status,
                                   applied |-> r.applied]
    /\ lock' = None
    /\ pc' = [pc EXCEPT ![t] = idle]
    /\ UNCHANGED <<calls, overflow_checks, twin>>

\* process_attestation, called by the host chain: up to the loop, which the
\* thread enters with the validators it is to call the backend for. With none
\* of them, or with a failing resolution, it returns.
FcProcessAttestation(t) ==
    /\ Begin(t)
    /\ \E a \in Attestations(pa), resolved \in Resolutions :
           LET r == ForkChoice_process_attestation(a.beacon_block_root, resolved)
           IN  IF r.status = "Ok" /\ r.todo # {}
               THEN /\ pc' = [pc EXCEPT ![t] = in_loop(a, r, "return", <<>>, 0)]
                    /\ last' = last
               ELSE /\ pc' = pc
                    /\ last' = [op |-> "process_attestation", status |-> r.status,
                                block_hash |-> a.beacon_block_root]
    /\ UNCHANGED <<pa, overflow_checks, votes, balances, twin, manager, lock>>

\* process_attestation: one turn of the loop, the process_attestation of the
\* backend for one of the attesting validators. An error of the backend is
\* returned at once, by process_attestation and by the process_block that
\* called it. After the last turn process_attestation returns: to the host
\* chain, or to process_block, which goes on with the body.
FcBackendProcessAttestation(t) ==
    /\ pc[t].at = "process_attestation"
    /\ \E validator_index \in pc[t].todo :
       \E r \in backend_process_attestation(votes, validator_index, pc[t].block_hash,
                                            pc[t].attestation.target_epoch) :
           /\ votes' = r.votes
           /\ IF r.status # "Ok"
              THEN /\ pc' = [pc EXCEPT ![t] = idle]
                   /\ last' = IF pc[t].then = "return"
                              THEN [op |-> "process_attestation", status |-> r.status,
                                    block_hash |-> pc[t].attestation.beacon_block_root]
                              ELSE [op |-> "process_block", status |-> r.status]
              ELSE IF pc[t].todo # {validator_index}
              THEN /\ pc' = [pc EXCEPT ![t].todo = @ \ {validator_index}]
                   /\ last' = last
              ELSE IF pc[t].then = "return"
              THEN /\ pc' = [pc EXCEPT ![t] = idle]
                   /\ last' = [op |-> "process_attestation", status |-> "Ok",
                               block_hash |-> pc[t].attestation.beacon_block_root]
              ELSE /\ pc' = [pc EXCEPT ![t] = next_attestation(pc[t].epochs,
                                                               pc[t].turns)]
                   /\ last' = last
    /\ UNCHANGED <<pa, calls, overflow_checks, balances, twin, manager, lock>>

FcContainsBlock(t) ==
    /\ Begin(t)
    /\ \E block_root \in Roots :
           last' = [op |-> "contains_block",
                    status |-> IF contains_block(pa, block_root) THEN "true" ELSE "false"]
    /\ UNCHANGED <<pa, overflow_checks, votes, balances, twin, manager, pc, lock>>

FcLatestMessage(t) ==
    /\ Begin(t)
    /\ \E validator_index \in Validators :
           last' = [op |-> "latest_message",
                    status |-> IF latest_message(votes, validator_index) = None
                               THEN "None" ELSE "Some"]
    /\ UNCHANGED <<pa, overflow_checks, votes, balances, twin, manager, pc, lock>>

\* prune: the finalized root is read under the read lock, which no writer may
\* hold, and the lock is released.
FcPrune(t) ==
    /\ Begin(t)
    /\ lock = None
    /\ pc' = [pc EXCEPT ![t] = [at |-> "maybe_prune",
                                finalized_root |-> manager.current.finalized.root,
                                finalized_epoch |-> manager.current.finalized.epoch]]
    /\ UNCHANGED <<pa, last, overflow_checks, votes, balances, twin, manager, lock>>

\* The finalized epoch the backend prunes at: that of the manager's current
\* record, as it was when the root was read or as it is when the backend is
\* called.
PruneEpochs(t) == {pc[t].finalized_epoch, manager.current.finalized.epoch}

\* prune: the maybe_prune of the backend, with the root read before.
FcBackendPrune(t) ==
    /\ pc[t].at = "maybe_prune"
    /\ \E finalized_epoch \in PruneEpochs(t), visited \in Visits(pa) :
           LET r == backend_maybe_prune(pa, finalized_epoch,
                                        pc[t].finalized_root, visited)
           IN  /\ pa' = r.self
               /\ last' = [op |-> "prune", status |-> r.result.status]
    /\ pc' = [pc EXCEPT ![t] = idle]
    /\ UNCHANGED <<calls, overflow_checks, votes, balances, twin, manager, lock>>

CoreNext ==
    \E t \in Threads :
        \/ PbLockProcessState(t)
        \/ PbProcessState(t)
        \/ PbLockMaybeUpdate(t)
        \/ PbMaybeUpdate(t)
        \/ PbAttestations(t)
        \/ PbBackend(t)
        \/ FhLock(t)
        \/ FhFindHead(t)
        \/ FcProcessAttestation(t)
        \/ FcBackendProcessAttestation(t)
        \/ FcContainsBlock(t)
        \/ FcLatestMessage(t)
        \/ FcPrune(t)
        \/ FcBackendPrune(t)

CoreSpec == Init /\ [][CoreNext]_vars

\* ------------------------------------------------------------------ LMD-GHOST

root_of(self, i) == get(self, i).root

viable(self, i) == node_is_viable_for_head(self, get(self, i))

viable_children(self, i) == {c \in children(self, i) : viable(self, c)}

\* The child LMD-GHOST prefers among S: the greatest weight, ties to the larger root.
heaviest(self, S) ==
    CHOOSE c \in S : \A d \in S :
        \/ get(self, c).weight > get(self, d).weight
        \/ /\ get(self, c).weight = get(self, d).weight
           /\ root_of(self, c) >= root_of(self, d)

\* The LMD-GHOST walk from node j, down to a node with no viable child.
RECURSIVE ghost_walk(_, _)
ghost_walk(self, j) ==
    IF viable_children(self, j) = {}
    THEN j
    ELSE ghost_walk(self, heaviest(self, viable_children(self, j)))

AfterApply == last.op = "apply_score_changes" /\ last.status = "Ok"

\* ------------------------------------------------------------------ C1

\* C1: immediately after a successful apply_score_changes, find_head from every
\* viable node returns the root the LMD-GHOST walk from that node ends at.
C1_HeadIsGhostWalk ==
    AfterApply =>
        \A j \in Indices(pa) :
            viable(pa, j) =>
                find_head(pa, root_of(pa, j)) =
                    [status |-> "Ok", value |-> Some(root_of(pa, ghost_walk(pa, j)))]

\* ------------------------------------------------------------------ C2

\* anchor -> A -> B, with the leaves C and D under B, D inserted after C.
VoteSwitchShape(self) ==
    /\ Len(self.nodes) = 5
    /\ get(self, 0).parent = None
    /\ get(self, 1).parent = Some(0)
    /\ get(self, 2).parent = Some(1)
    /\ get(self, 3).parent = Some(2)
    /\ get(self, 4).parent = Some(2)

\* -w at C's index, +w at D's index, 0 elsewhere.
VoteSwitch(w) == <<0, 0, 0, 0 - w, w>>

\* C2: on that tree, when C holds weight w > 0 and is B's best_child, moving
\* the weight w from C to D makes find_head(anchor_root) return D.root.
C2_VoteSwitchHead ==
    \A w \in 1..MaxWeight :
        ( /\ VoteSwitchShape(pa)
          /\ get(pa, 3).weight = w
          /\ get(pa, 2).best_child = Some(3) )
        => LET r == apply_score_changes(pa, VoteSwitch(w), pa.justified_epoch)
           IN  /\ r.result.status = "Ok"
               /\ find_head(r.self, root_of(pa, 0)) =
                      [status |-> "Ok", value |-> Some(root_of(pa, 4))]

\* ------------------------------------------------------------------ C3

\* C3: after every public mutation that succeeded, whatever a best_child or a
\* best_descendant points at carries the engine's current (justified,
\* finalized) epochs.
C3_BestPointersViable ==
    last.status = "Ok" =>
        \A i \in Indices(pa) :
            /\ get(pa, i).best_child # None
                   => viable(pa, unwrap(get(pa, i).best_child))
            /\ get(pa, i).best_descendant # None
                   => viable(pa, unwrap(get(pa, i).best_descendant))

\* ------------------------------------------------------------------ C4

\* best_descendant[i] = best_descendant[c].or(Some(c)) for the best child c of i.
closed(self, i) ==
    LET c == unwrap(get(self, i).best_child)
    IN  get(self, i).best_descendant =
            IF get(self, c).best_descendant # None
            THEN get(self, c).best_descendant
            ELSE Some(c)

\* C4 as claimed: after every public mutation that succeeded, every node with
\* a best_child has the best_descendant the closure rule gives.
C4_DescendantClosure ==
    last.status = "Ok" =>
        \A i \in Indices(pa) : get(pa, i).best_child # None => closed(pa, i)

\* C4 as amended: immediately after a successful apply_score_changes, the
\* closure rule holds at every node whose best_child is viable for head and
\* does not carry the zero root.
C4_ClosureAfterApply ==
    AfterApply =>
        \A i \in Indices(pa) :
            ( /\ get(pa, i).best_child # None
              /\ viable(pa, unwrap(get(pa, i).best_child))
              /\ root_of(pa, unwrap(get(pa, i).best_child)) # ZeroHash )
            => closed(pa, i)

\* A successful apply_score_changes has left a node whose best_descendant lies
\* below its best_child.
C4_Witness ==
    /\ AfterApply
    /\ \E i \in Indices(pa) :
           /\ get(pa, i).best_child # None
           /\ viable(pa, unwrap(get(pa, i).best_child))
           /\ root_of(pa, unwrap(get(pa, i).best_child)) # ZeroHash
           /\ get(pa, unwrap(get(pa, i).best_child)).best_descendant # None
           /\ get(pa, i).best_descendant # get(pa, i).best_child

\* ------------------------------------------------------------------ C5

\* C5: after every public mutation that succeeded, no root occurs twice in
\* nodes, the index map sends every node's root to that node's index, and it
\* has one entry per node.
C5_IndexMapConsistent ==
    last.status = "Ok" =>
    /\ \A i, j \in Indices(pa) : i # j => root_of(pa, i) # root_of(pa, j)
    /\ \A i \in Indices(pa) :
           /\ root_of(pa, i) \in DOMAIN pa.indices
           /\ pa.indices[root_of(pa, i)] = i
    /\ Cardinality(DOMAIN pa.indices) = Len(pa.nodes)

\* ------------------------------------------------------------------ C6

\* C6: after every public mutation, a node's parent index is below its own.
C6_TopologicalOrder ==
    \A i \in Indices(pa) :
        get(pa, i).parent # None =>
            /\ unwrap(get(pa, i).parent) >= 0
            /\ unwrap(get(pa, i).parent) < i

\* maybe_prune has just compacted the array (the anchor is no longer the block
\* the engine was seeded from) and a retained node still has a parent.
C6_Witness ==
    /\ last.op = "maybe_prune"
    /\ last.status = "Ok"
    /\ root_of(pa, 0) # genesis_block_root
    /\ \E i \in Indices(pa) : get(pa, i).parent # None

\* ------------------------------------------------------------------ C7

\* C7: once the anchor is in, on_new_block with a parent_root the index map
\* does not hold fails with UnknownParent and leaves nodes and indices alone.
C7_UnknownParentRefused ==
    \A root \in Roots, parent_root \in Roots \ DOMAIN pa.indices, e \in BlockEpochs :
        LET r == on_new_block(pa, root, Some(parent_root), e[1], e[2])
        IN  /\ r.result.status = "UnknownParent"
            /\ r.self.nodes = pa.nodes
            /\ r.self.indices = pa.indices

\* ------------------------------------------------------------------ C8

\* What find_head(r) must return in engine state self, for every root r.
FindHeadConforms(self) ==
    \A r \in Roots :
        LET res == find_head(self, r) IN
        IF r \notin DOMAIN self.indices
        THEN res.status = "JustifiedNodeUnknown"
        ELSE LET j == self.indices[r] IN
             /\ j \in Indices(self)
             /\ IF \/ get(self, j).justified_epoch # self.justified_epoch
                   \/ get(self, j).finalized_epoch # self.finalized_epoch
                THEN res = [status |-> "InvalidFindHeadStartRoot", value |-> None]
                ELSE IF get(self, j).best_descendant = None
                THEN res = [status |-> "Ok", value |-> Some(r)]
                ELSE /\ unwrap(get(self, j).best_descendant) \in Indices(self)
                     /\ res = [status |-> "Ok",
                               value |-> Some(root_of(self,
                                   unwrap(get(self, j).best_descendant)))]

\* C8: find_head(r) fails with JustifiedNodeUnknown for a root the index map
\* does not hold, with InvalidFindHeadStartRoot for a node whose epochs differ
\* from the engine's, and otherwise returns the root of the node's
\* best_descendant (its own root when it has none); the call changes nothing.
C8_FindHeadOutcomes ==
    [][ /\ FindHeadConforms(pa)
        /\ FindHeadConforms(pa')
        /\ last'.op = "find_head" => pa' = pa ]_vars

\* find_head has been called in a state where each of the three outcomes is
\* what some root gets.
C8_Witness ==
    /\ last.op = "find_head"
    /\ \E r \in Roots : find_head(pa, r).status = "JustifiedNodeUnknown"
    /\ \E r \in Roots : find_head(pa, r).status = "InvalidFindHeadStartRoot"
    /\ \E r \in Roots : /\ find_head(pa, r).status = "Ok"
                        /\ find_head(pa, r).value # Some(r)

\* ------------------------------------------------------------------ C9

\* C9: maybe_prune(e, r) fails with InvalidFinalizedRootChange when e is the
\* engine's finalized_epoch and r is not its finalized_root, and with
\* RevertedFinalizedEpoch when e is below the engine's finalized_epoch; either
\* way the engine is left exactly as it was.
C9_PruneRefusals ==
    \A e \in Epochs, r \in Roots, visited \in Visits(pa) :
        LET res == maybe_prune(pa, e, r, visited) IN
        /\ (e = pa.finalized_epoch /\ r # pa.finalized_root)
               => res = Err(pa, "InvalidFinalizedRootChange", None)
        /\ e < pa.finalized_epoch
               => res = Err(pa, "RevertedFinalizedEpoch", None)

\* maybe_prune has refused an earlier epoch, in a state where it would also
\* refuse another root at the same epoch.
C9_Witness ==
    /\ last.op = "maybe_prune"
    /\ last.status = "RevertedFinalizedEpoch"
    /\ \E r \in Roots, visited \in Visits(pa) :
           maybe_prune(pa, pa.finalized_epoch, r, visited).result.status
               = "InvalidFinalizedRootChange"

\* ------------------------------------------------------------------ C10

\* C10: no public operation lowers finalized_epoch, and a step that keeps
\* finalized_epoch keeps finalized_root.
C10_FinalizationMonotone ==
    [][ /\ pa'.finalized_epoch >= pa.finalized_epoch
        /\ pa'.finalized_epoch = pa.finalized_epoch
               => pa'.finalized_root = pa.finalized_root ]_vars

\* maybe_prune has advanced the finalized pair to a block other than the one
\* the engine was seeded from.
C10_Witness ==
    /\ last.op = "maybe_prune"
    /\ pa.finalized_epoch > 0
    /\ pa.finalized_root # genesis_block_root

\* ------------------------------------------------------------------ C11

\* The all-zero delta vector the length check accepts.
ZeroDeltas(self) == [k \in 1..Cardinality(DOMAIN self.indices) |-> 0]

\* Every root is non-zero, occurs once, and is mapped to its node's index.
Regular(self) ==
    /\ DOMAIN self.indices = {root_of(self, i) : i \in Indices(self)}
    /\ \A i \in Indices(self) :
           /\ root_of(self, i) # ZeroHash
           /\ self.indices[root_of(self, i)] = i

NoStaleBestChild(self) ==
    \A i \in Indices(self) :
        get(self, i).best_child # None
            => viable(self, unwrap(get(self, i).best_child))

\* C11: when maybe_prune has advanced the finalized pair, the next
\* apply_score_changes filters the tree again even if it is called with the
\* engine's own justified_epoch: once it has succeeded, no node keeps a
\* best_child that is not viable under the new finalized epoch. Stated for
\* engines whose roots are non-zero and distinct.
C11_RefilterAfterFinalization ==
    [][ ( /\ last'.op = "maybe_prune"
          /\ last'.status = "Ok"
          /\ pa'.finalized_epoch > pa.finalized_epoch
          /\ Regular(pa') )
        => LET r == apply_score_changes(pa', ZeroDeltas(pa'), pa'.justified_epoch)
           IN  r.result.status = "Ok" => NoStaleBestChild(r.self) ]_vars

\* ------------------------------------------------------------------ C12

\* anchor -> A -> B with anchor and A at epochs (0,0), B at (1,0), the engine
\* at (0,0), and weight voted at B only.
FfgShape(self) ==
    /\ Regular(self)
    /\ Len(self.nodes) = 3
    /\ self.justified_epoch = 0 /\ self.finalized_epoch = 0
    /\ get(self, 0).parent = None
    /\ get(self, 1).parent = Some(0)
    /\ get(self, 2).parent = Some(1)
    /\ \A i \in {0, 1} : /\ get(self, i).justified_epoch = 0
                         /\ get(self, i).finalized_epoch = 0
    /\ get(self, 2).justified_epoch = 1 /\ get(self, 2).finalized_epoch = 0
    /\ get(self, 2).weight > 0
    /\ \A i \in {0, 1} : get(self, i).weight = get(self, 2).weight

FfgCase == AfterApply /\ FfgShape(pa)

\* C12 as claimed: in that scenario find_head(anchor_root) returns A.root, and
\* after apply_score_changes(zero deltas, justified_epoch = 1) the same query
\* returns B.root.
C12_FfgScenario ==
    FfgCase =>
        /\ find_head(pa, root_of(pa, 0)) = [status |-> "Ok", value |-> Some(root_of(pa, 1))]
        /\ LET r == apply_score_changes(pa, ZeroDeltas(pa), 1)
           IN  /\ r.result.status = "Ok"
               /\ find_head(r.self, root_of(pa, 0)) =
                      [status |-> "Ok", value |-> Some(root_of(pa, 2))]

\* C12 as amended: in that scenario find_head(anchor_root) returns A.root;
\* after apply_score_changes(zero deltas, justified_epoch = 1) the query from
\* the anchor is refused with InvalidFindHeadStartRoot, the query from A as
\* well, and find_head(B.root) returns B.root.
C12_FfgScenarioFromB ==
    FfgCase =>
        /\ find_head(pa, root_of(pa, 0)) = [status |-> "Ok", value |-> Some(root_of(pa, 1))]
        /\ LET r == apply_score_changes(pa, ZeroDeltas(pa), 1)
           IN  /\ r.result.status = "Ok"
               /\ find_head(r.self, root_of(pa, 0)) =
                      [status |-> "InvalidFindHeadStartRoot", value |-> None]
               /\ find_head(r.self, root_of(pa, 1)) =
                      [status |-> "InvalidFindHeadStartRoot", value |-> None]
               /\ find_head(r.self, root_of(pa, 2)) =
                      [status |-> "Ok", value |-> Some(root_of(pa, 2))]

\* The scenario has been set up: the vote for B has just been applied.
C12_Witness == FfgCase

\* ------------------------------------------------------------------ C13

\* maybe_prune(e, r) succeeds on self and compacts: the finalized node sits at
\* an index that is not below prune_threshold.
Compacts(self, e, r, visited) ==
    LET res == maybe_prune(self, e, r, visited) IN
    /\ res.result.status = "Ok"
    /\ res.self.finalized_root \in DOMAIN self.indices
    /\ self.indices[res.self.finalized_root] >= self.prune_threshold

\* An index that was at least f is reduced by f.
Rebased(old, new, f) ==
    (old # None /\ unwrap(old) >= f) => new = Some(unwrap(old) - f)

\* post is self compacted at index f.
CompactedAt(self, post, f) ==
    /\ Len(post.nodes) = Len(self.nodes) - f
    /\ \A k \in Indices(post) :
           LET old == get(self, k + f)
               new == get(post, k)
           IN  /\ new.root = old.root
               /\ new.justified_epoch = old.justified_epoch
               /\ new.finalized_epoch = old.finalized_epoch
               /\ new.weight = old.weight
               /\ Rebased(old.parent, new.parent, f)
               /\ Rebased(old.best_child, new.best_child, f)
               /\ Rebased(old.best_descendant, new.best_descendant, f)
    /\ DOMAIN post.indices = {root_of(post, k) : k \in Indices(post)}
    /\ \A k \in Indices(post) : post.indices[root_of(post, k)] = k

\* C13: when maybe_prune succeeds with the finalized node at index
\* f >= prune_threshold, nodes becomes the old nodes from f on, in order and
\* with root, epochs and weight unchanged, indices holds exactly the retained
\* roots, each mapped to its old index less f, and every retained parent,
\* best_child and best_descendant that was at least f is reduced by f.
C13_PruneCompaction ==
    \A e \in Epochs, r \in Roots, visited \in Visits(pa) :
        Compacts(pa, e, r, visited) =>
            CompactedAt(pa, maybe_prune(pa, e, r, visited).self,
                        pa.indices[maybe_prune(pa, e, r, visited).self.finalized_root])

\* ------------------------------------------------------------------ C14

\* The root node j designates as its head: that of its best_descendant, its
\* own when it has none; -1 when the best_descendant is no index of nodes.
designated_head(self, j) ==
    LET bd == get(self, j).best_descendant IN
    IF bd = None THEN root_of(self, j)
    ELSE IF unwrap(bd) \in Indices(self) THEN root_of(self, unwrap(bd))
    ELSE 0 - 1

\* C14 as claimed: a maybe_prune call that compacts the array leaves the head
\* every retained node designates as it was, and find_head from the finalized
\* root returns after the call what it returned before.
C14_PruneKeepsFoundHead ==
    \A e \in Epochs, r \in Roots, visited \in Visits(pa) :
        Compacts(pa, e, r, visited) =>
            LET post == maybe_prune(pa, e, r, visited).self
                f == pa.indices[post.finalized_root]
            IN  /\ \A j \in Indices(post) :
                       designated_head(post, j) = designated_head(pa, j + f)
                /\ find_head(post, post.finalized_root)
                       = find_head(pa, post.finalized_root)

\* C14 as amended: a maybe_prune call that compacts the array leaves the head
\* every retained node designates as it was. Where find_head from the
\* finalized root returned a head before the call, it returns the same head
\* after a call that leaves the finalized epoch as it was, and fails with
\* InvalidFindHeadStartRoot after a call that advances the finalized epoch;
\* when a dropped node carries the finalized root as well, the root's key has
\* gone with it and find_head fails with JustifiedNodeUnknown.
C14_PrunePreservesHead ==
    \A e \in Epochs, r \in Roots, visited \in Visits(pa) :
        Compacts(pa, e, r, visited) =>
            LET post == maybe_prune(pa, e, r, visited).self
                f == pa.indices[post.finalized_root]
                before == find_head(pa, post.finalized_root)
                after == find_head(post, post.finalized_root)
            IN  /\ \A j \in Indices(post) :
                       designated_head(post, j) = designated_head(pa, j + f)
                /\ before.status = "Ok" =>
                       after = IF \E k \in 0..(f - 1) : root_of(pa, k) = post.finalized_root
                               THEN [status |-> "JustifiedNodeUnknown",
                                     value |-> Some(post.finalized_root)]
                               ELSE IF e = pa.finalized_epoch
                               THEN before
                               ELSE [status |-> "InvalidFindHeadStartRoot", value |-> None]

\* One more call is to come and maybe_prune with the finalized epoch and root
\* the engine has compacts the array; find_head from the finalized root
\* returns a head before the call and the same head after it.
C14_Witness ==
    /\ calls < MaxCalls
    /\ pa.finalized_root # ZeroHash
    /\ \E visited \in Visits(pa) :
           /\ Compacts(pa, pa.finalized_epoch, pa.finalized_root, visited)
           /\ find_head(pa, pa.finalized_root).status = "Ok"
           /\ find_head(maybe_prune(pa, pa.finalized_epoch, pa.finalized_root, visited).self,
                        pa.finalized_root)
                  = find_head(pa, pa.finalized_root)

\* ------------------------------------------------------------------ C15

\* Node j lies in the subtree of node i: j is i or a descendant of i through
\* parent links.
RECURSIVE in_subtree(_, _, _)
in_subtree(self, i, j) ==
    \/ j = i
    \/ /\ get(self, j).parent # None
       /\ unwrap(get(self, j).parent) \in Indices(self)
       /\ unwrap(get(self, j).parent) < j
       /\ in_subtree(self, i, unwrap(get(self, j).parent))

subtree(self, i) == {j \in Indices(self) : in_subtree(self, i, j)}

\* The sum of the deltas of the nodes in the subtree of node i.
subtree_delta(self, deltas, i) ==
    sum_over([j \in subtree(self, i) |-> deltas[j + 1]], subtree(self, i))

NoZeroRoot(self) == \A i \in Indices(self) : root_of(self, i) # ZeroHash

WeightsBackPropagated(self, deltas, post) ==
    \A i \in Indices(self) :
        get(post, i).weight = get(self, i).weight + subtree_delta(self, deltas, i)

\* C15: after a successful apply_score_changes(d, e) on an engine with no
\* zero-root node, the weight of every node has grown by the sum of d over the
\* node's subtree.
C15_BackPropagation ==
    NoZeroRoot(pa) =>
        \A deltas \in WideVecs(pa), e \in Epochs :
            LET r == apply_score_changes(pa, deltas, e)
            IN  r.result.status = "Ok" => WeightsBackPropagated(pa, deltas, r.self)

\* ------------------------------------------------------------------ C16

\* The balances of the validators whose latest message is one of the roots S.
voted_balance(S) ==
    sum_over([v \in Validators |-> IF votes[v].next_root \in S THEN balances[v] ELSE 0],
             Voters(votes))

\* C16 as claimed: after every successful apply_score_changes fed with
\* compute_deltas, the weights of all nodes add up to the balances of the
\* validators whose latest message is a block of the live tree.
C16_WeightConservation ==
    AfterApply => weight_sum(pa, Indices(pa)) = voted_balance(DOMAIN pa.indices)

\* C16 with a node's weight read as that of its subtree: after every
\* successful apply_score_changes fed with compute_deltas, the weight of every
\* node is the sum of the balances of the validators whose latest message is
\* a block in the node's subtree.
C16_SubtreeConservation ==
    AfterApply =>
        \A i \in Indices(pa) :
            get(pa, i).weight = voted_balance({root_of(pa, j) : j \in subtree(pa, i)})

\* Votes have just been applied, and a validator with a balance has its
\* latest message, applied, at a block the engine holds whose weight is 0.
C16_VoteNotCounted ==
    /\ AfterApply
    /\ \E v \in Voters(votes) :
           /\ balances[v] > 0
           /\ votes[v].current_root = votes[v].next_root
           /\ votes[v].next_root \in DOMAIN pa.indices
           /\ get(pa, pa.indices[votes[v].next_root]).weight = 0

\* ------------------------------------------------------------------ C17

\* The nodes whose weight, with the deltas of the node's subtree added, is no u64.
OutOfRange(self, deltas) ==
    {i \in Indices(self) :
        \/ get(self, i).weight + subtree_delta(self, deltas, i) < 0
        \/ get(self, i).weight + subtree_delta(self, deltas, i) > u64_MAX}

\* C17: apply_score_changes fails with DeltaOverflow(i) exactly when the
\* weight of node i with its accumulated delta added is no u64, i being the
\* first such node the reverse pass meets; otherwise it succeeds and every
\* weight is the exact sum. No weight wraps around and the accumulation of the
\* deltas does not overflow unnoticed.
C17_CheckedWeights ==
    \A deltas \in WideVecs(pa) :
        LET r == apply_score_changes(pa, deltas, pa.justified_epoch)
            bad == OutOfRange(pa, deltas)
        IN  IF bad = {}
            THEN /\ r.result.status = "Ok"
                 /\ WeightsBackPropagated(pa, deltas, r.self)
            ELSE /\ r.result.status = "DeltaOverflow"
                 /\ r.result.value = Some(CHOOSE i \in bad : \A j \in bad : j <= i)

\* ------------------------------------------------------------------ C18

\* Delta vectors of every length up to one more than the array can hold.
LenVecs == {[k \in 1..n |-> d] : n \in 0..(MaxNodes + 1), d \in Deltas}

\* C18: apply_score_changes fails with InvalidDeltaLen exactly when the
\* number of deltas differs from the number of nodes, and then leaves every
\* field of the engine as it was.
C18_InvalidDeltaLen ==
    \A deltas \in LenVecs, e \in Epochs :
        LET r == apply_score_changes(pa, deltas, e) IN
        /\ r.result.status = "InvalidDeltaLen" <=> Len(deltas) # Len(pa.nodes)
        /\ Len(deltas) # Len(pa.nodes) => r.self = pa

\* ------------------------------------------------------------------ C19

\* apply_score_changes(all-zero deltas, the engine's justified_epoch) succeeds
\* on self and every find_head that returned a root returns the same root.
ZeroDeltaKeepsHeads(self) ==
    LET r == apply_score_changes(self, ZeroDeltas(self), self.justified_epoch) IN
    \A j \in Indices(self) :
        find_head(self, root_of(self, j)).status = "Ok" =>
            /\ r.result.status = "Ok"
            /\ find_head(r.self, root_of(self, j)) = find_head(self, root_of(self, j))

\* C19, in the states where find_head is up to date (immediately after a
\* successful apply_score_changes): applying all-zero deltas with the
\* engine's justified_epoch changes the result of no successful find_head.
C19_ZeroDeltaKeepsHead == AfterApply => ZeroDeltaKeepsHeads(pa)

\* ------------------------------------------------------------------ C20

\* The engine after apply_score_changes(all-zero deltas, e), whatever the call
\* returned.
zero_pass(self, e) == apply_score_changes(self, ZeroDeltas(self), e).self

\* C20: from every reachable state and for every epoch e, a second
\* apply_score_changes(all-zero deltas, e) leaves the engine as the first one
\* left it.
C20_ZeroDeltaIdempotent ==
    \A e \in Epochs : zero_pass(zero_pass(pa, e), e) = zero_pass(pa, e)

\* ------------------------------------------------------------------ C21

\* C21: two engines that were given the same blocks in two parent-before-child
\* orders and then the same weight changes, each placed at its root's index,
\* return the same find_head result from every justified root.
C21_InsertionOrderIndependent ==
    (AfterApply /\ Len(twin.nodes) = Len(pa.nodes)) =>
        \A justified_root \in DOMAIN pa.indices :
            find_head(twin, justified_root) = find_head(pa, justified_root)

\* ------------------------------------------------------------------ C22

\* Both cores are rebuilt equal from their serialized forms by one decoder.
RoundTrips(fc, gc) ==
    \E ffg_update_required \in BOOLEAN :
        /\ from_ssz_container(as_ssz_container(fc), ffg_update_required) = fc
        /\ from_ssz_container(as_ssz_container(gc), ffg_update_required) = gc

\* C22: the core rebuilt from its serialized form is equal to the core, in
\* every reachable state: in particular the cores before and after a step that
\* leaves the serialized form as it was, both reached by calls that returned
\* Ok, are both rebuilt equal from it.
C22_SerializationRoundTrip ==
    [][(/\ last.status = "Ok" /\ last'.status = "Ok"
        /\ as_ssz_container(ForkChoice(pa', manager')) = as_ssz_container(ForkChoice(pa, manager)))
           => RoundTrips(ForkChoice(pa, manager), ForkChoice(pa', manager'))]_vars

\* ------------------------------------------------------------------ C23

\* C23: in every state, before and after pruning has moved the anchor, the
\* head query from the zero root gives the result of the query from the root
\* of the node at index 0.
C23_AnchorAlias ==
    find_head(pa, remove_alias(ZeroHash)) = find_head(pa, root_of(pa, 0))

\* C23, amended: the zero root stands for the root the ForkChoice was
\* instantiated with. While that block is the anchor the two queries give the
\* same result; once pruning has moved the anchor the query from the zero root
\* fails with JustifiedNodeUnknown.
C23_InstantiationAlias ==
    /\ root_of(pa, 0) = genesis_block_root =>
           find_head(pa, remove_alias(ZeroHash)) = find_head(pa, root_of(pa, 0))
    /\ root_of(pa, 0) # genesis_block_root =>
           find_head(pa, remove_alias(ZeroHash)).status = "JustifiedNodeUnknown"

\* Pruning has moved the anchor, and new blocks have arrived since.
C23_Witness ==
    /\ root_of(pa, 0) # genesis_block_root
    /\ Len(pa.nodes) > 1
    /\ find_head(pa, remove_alias(ZeroHash)).status = "JustifiedNodeUnknown"

\* ------------------------------------------------------------------ C24

\* C24: process_state and maybe_update of one process_block are one atomic
\* step: while a thread stands between the two, no other thread holds the
\* checkpoint manager.
C24_ProcessBlockAtomic ==
    \A t, u \in Threads :
        (pc[t].at = "lock_maybe_update" /\ u # t) => lock # Some(u)

\* ------------------------------------------------------------------ C25

\* The step is the return of a find_head.
FindHeadReturns == \E t \in Threads : pc[t].at = "find_head" /\ pc'[t] = idle

\* The step is a contains_block or a latest_message.
LookupReturns ==
    /\ calls' = calls + 1
    /\ pc' = pc
    /\ last'.op \in {"contains_block", "latest_message"}

\* The blocks of the engine: all of a node but its weight and best pointers.
blocks_of(self) ==
    [k \in 1..Len(self.nodes) |->
        [self.nodes[k] EXCEPT !.weight = 0, !.best_child = None,
                              !.best_descendant = None]]

\* The latest messages of the validators.
latest_messages(vs) == [v \in Validators |-> latest_message(vs, v)]

\* C25: find_head, contains_block and latest_message are read paths: a step
\* of any of them changes nothing of the checkpoint manager, the vote tracker
\* and the engine.
C25_ReadPaths ==
    [][(FindHeadReturns \/ LookupReturns)
           => UNCHANGED <<manager, votes, balances, pa>>]_vars

\* C25, amended: contains_block and latest_message are read paths. find_head
\* is not: under the write lock it may promote best into current and apply the
\* pending deltas; what it leaves alone is the manager's best record, the
\* validators' latest messages and the engine's blocks and index map.
C25_LookupsAreReadPaths ==
    [][/\ LookupReturns => UNCHANGED <<manager, votes, balances, pa>>
       /\ FindHeadReturns =>
              /\ manager'.best = manager.best
              /\ latest_messages(votes') = latest_messages(votes)
              /\ blocks_of(pa') = blocks_of(pa)
              /\ pa'.indices = pa.indices
              /\ pa'.finalized_epoch = pa.finalized_epoch
              /\ pa'.finalized_root = pa.finalized_root]_vars

\* A find_head has returned a head with the vote of a validator applied.
C25_Witness ==
    /\ last.op = "find_head"
    /\ last.status = "Ok"
    /\ last.applied = "Ok"
    /\ \E v \in Validators : votes[v].current_root # ZeroHash

\* ------------------------------------------------------------------ C26

\* The vote of each validator that was last applied.
applied_votes(vs) == [v \in Validators |-> vs[v].current_root]

\* C26: promotion is all-or-nothing: when apply_score_changes fails in a
\* find_head, the checkpoint manager's current record and the applied votes
\* are as they were before the call.
C26_PromotionAllOrNothing ==
    [][(FindHeadReturns /\ last'.applied \notin {"Ok", "none"})
           => /\ manager'.current = manager.current
              /\ applied_votes(votes') = applied_votes(votes)]_vars

\* ------------------------------------------------------------------ C27

\* C27: for every validator the target epoch of the latest message never
\* decreases, and a stored message is replaced only by a vote with a strictly
\* greater target epoch.
C27_VoteMonotonicity ==
    [][\A v \in Validators :
          /\ votes'[v].next_epoch >= votes[v].next_epoch
          /\ (/\ votes[v] # VoteTracker_default
              /\ latest_message(votes', v) # latest_message(votes, v))
                 => votes'[v].next_epoch > votes[v].next_epoch]_vars

\* A validator's applied vote has been replaced by a later vote for another
\* block, and an attestation has been processed since.
C27_Witness ==
    /\ last.op = "process_attestation"
    /\ \E v \in Validators :
           /\ votes[v].current_root # ZeroHash
           /\ votes[v].next_root # votes[v].current_root
           /\ votes[v].next_epoch > 0

\* ------------------------------------------------------------------ C28

\* The step is of a process_attestation for the zero root: its return to the
\* host chain, or a call of the backend in its loop.
ZeroRootStep ==
    \/ /\ last' # last
       /\ last'.op = "process_attestation"
       /\ last'.status = "Ok"
       /\ last'.block_hash = ZeroHash
    \/ \E t \in Threads :
           /\ pc[t].at = "process_attestation"
           /\ pc[t].attestation.beacon_block_root = ZeroHash
           /\ pc'[t] # pc[t]

\* C28: an attestation to the zero root, processed directly or from a block
\* body, changes no validator's latest message and nothing of the engine,
\* whoever attests and whatever the target epoch: no step of its processing
\* does, and a block body's is resolved to no validator.
C28_ZeroRootIgnored ==
    /\ [][ZeroRootStep => UNCHANGED <<votes, pa>>]_vars
    /\ [](\A resolved \in Resolutions :
              body_attestation(pa, ZeroHash, resolved).todo = {})

\* A process_attestation for the zero root has returned while a validator has
\* a latest message that a vote for the anchor at the last epoch would have
\* replaced.
C28_Witness ==
    /\ last.op = "process_attestation"
    /\ last.status = "Ok"
    /\ last.block_hash = ZeroHash
    /\ \E v \in Validators :
           /\ votes[v] # VoteTracker_default
           /\ process_attestation(votes, v, genesis_block_root, MaxEpoch) # votes

\* ------------------------------------------------------------------ C29

\* The best_child of p is its viable child that is better than every viable
\* child of p, and None when p has no viable child.
BestChildOptimal(self, p) ==
    IF viable_children(self, p) = {}
    THEN get(self, p).best_child = None
    ELSE \E c \in viable_children(self, p) :
             /\ get(self, p).best_child = Some(c)
             /\ \A d \in viable_children(self, p) :
                    is_better_than(get(self, c), get(self, d))

\* C29: immediately after a successful apply_score_changes the best_child of
\* every node is its best viable child, or None if it has no viable child.
C29_BestChildOptimal ==
    AfterApply => \A p \in Indices(pa) : BestChildOptimal(pa, p)

\* ------------------------------------------------------------------ C30

\* The new node takes its parent's best-child place: its epochs are the
\* engine's pair and the parent has no best_child or one the new node beats.
becomes_best_child(self, new, justified_epoch, finalized_epoch) ==
    /\ justified_epoch = self.justified_epoch
    /\ finalized_epoch = self.finalized_epoch
    /\ new.parent # None
    /\ LET existing == get(self, unwrap(new.parent)).best_child
       IN  \/ existing = None
           \/ is_better_than(new, get(self, unwrap(existing)))

\* What a successful on_new_block(root, .., justified_epoch, finalized_epoch)
\* that leads from self to after may have done; the caller's root and epochs
\* are those of the node it appended.
OnNewBlockFrame(self, after, root, justified_epoch, finalized_epoch) ==
    LET n == Len(self.nodes)
        new == after.nodes[n + 1]
    IN  /\ Len(after.nodes) = n + 1
        /\ new.root = root
        /\ new.justified_epoch = justified_epoch
        /\ new.finalized_epoch = finalized_epoch
        /\ new.weight = 0
        /\ new.best_child = None
        /\ new.best_descendant = None
        /\ DOMAIN after.indices = DOMAIN self.indices \cup {root}
        /\ after.indices[root] = n
        /\ \A k \in DOMAIN self.indices \ {root} :
               after.indices[k] = self.indices[k]
        /\ after.justified_epoch = self.justified_epoch
        /\ after.finalized_epoch = self.finalized_epoch
        /\ after.finalized_root = self.finalized_root
        /\ after.prune_threshold = self.prune_threshold
        /\ after.ffg_update_required = self.ffg_update_required
        /\ \A i \in Indices(self) :
               IF /\ new.parent = Some(i)
                  /\ becomes_best_child(self, new, justified_epoch, finalized_epoch)
               THEN get(after, i) = [get(self, i) EXCEPT
                                        !.best_child = Some(n),
                                        !.best_descendant = Some(n)]
               ELSE get(after, i) = get(self, i)

\* C30: a successful on_new_block appends one node with weight 0 and no best
\* child or descendant at index len(nodes) and maps its root to that index; it
\* changes nothing else but the best_child and best_descendant of the new
\* node's direct parent, which become the new node exactly when the new node's
\* epochs are the engine's pair and the parent has no best_child or the new
\* node is better than it.
C30_OnNewBlockFrame ==
    [][(last'.op = "on_new_block" /\ last'.status = "Ok") =>
          LET new == pa'.nodes[Len(pa'.nodes)]
          IN  OnNewBlockFrame(pa, pa', new.root,
                              new.justified_epoch, new.finalized_epoch)]_vars

\* A block was added below a node that has a parent of its own, became that
\* node's best child, and the grandparent's best_descendant still names the
\* parent.
C30_Witness ==
    /\ last.op = "on_new_block"
    /\ last.status = "Ok"
    /\ LET n == Len(pa.nodes) - 1
           new == get(pa, n)
       IN  /\ new.parent # None
           /\ new.weight = 0
           /\ new.best_child = None
           /\ get(pa, unwrap(new.parent)).best_child = Some(n)
           /\ get(pa, unwrap(new.parent)).parent # None
           /\ unwrap(get(pa, unwrap(new.parent)).parent) # n
           /\ get(pa, unwrap(get(pa, unwrap(new.parent)).parent)).best_descendant
                  = new.parent

\* ------------------------------------------------------------------ C31

\* Delta vectors of the accepted length: no change, one more on every node, one
\* less on every node (which fails inside the loop at a node of weight 0).
UniformDeltas(self) ==
    {[k \in 1..Cardinality(DOMAIN self.indices) |-> d] : d \in {0 - 1, 0, 1}}

\* The call was given up inside the loop, so the engine still shows the mode
\* the call ran in.
FailedInLoop(status) ==
    status \in {"InvalidNodeDelta", "DeltaOverflow", "InvalidParentDelta"}

\* C31: a successful apply_score_changes(deltas, e) leaves justified_epoch = e
\* and the FFG-update-required flag false; the call runs in FFG-update mode
\* exactly when e differs from the justified_epoch at entry (the mode is
\* read off the engine a call leaves behind when it fails inside the loop).
C31_FfgModePerCall ==
    \A deltas \in UniformDeltas(pa), e \in Epochs :
        LET r == apply_score_changes(pa, deltas, e)
        IN  /\ r.result.status = "Ok" =>
                   /\ r.self.justified_epoch = e
                   /\ ~r.self.ffg_update_required
            /\ FailedInLoop(r.result.status) =>
                   /\ r.self.justified_epoch = e
                   /\ r.self.ffg_update_required = (e # pa.justified_epoch)

\* A successful call has moved the engine to a later justified epoch and
\* cleared the flag; the same epoch passed again would fail inside the loop.
C31_Witness ==
    /\ last.op = "apply_score_changes"
    /\ last.status = "Ok"
    /\ pa.justified_epoch = MaxEpoch
    /\ ~pa.ffg_update_required
    /\ \E deltas \in UniformDeltas(pa) :
           FailedInLoop(apply_score_changes(pa, deltas, pa.justified_epoch).result.status)

\* ------------------------------------------------------------------ C32

\* C32: the only node with parent = None is the node at index 0; after a
\* compacting maybe_prune every retained node other than index 0 still has a
\* parent inside the array.
C32_SingleAnchor ==
    \A i \in Indices(pa) : get(pa, i).parent = None => i = 0

\* The step is a maybe_prune that dropped nodes.
PruneCompacted == last'.op = "maybe_prune" /\ Len(pa'.nodes) < Len(pa.nodes)

\* C32 as it holds: index 0 has no parent and every other parent is a smaller
\* index; a compacting maybe_prune sets parent = None on exactly the retained
\* nodes whose parent it removed (the finalized node and the retained nodes
\* that do not descend from it) and re-bases every other parent; in any other
\* call a node above index 0 has parent = None only if it had none before or
\* is the node on_new_block has just appended.
C32_ParentsAfterPrune ==
    [][/\ get(pa', 0).parent = None
       /\ \A i \in Indices(pa') :
              get(pa', i).parent # None => unwrap(get(pa', i).parent) < i
       /\ IF PruneCompacted
          THEN LET finalized_index == Len(pa.nodes) - Len(pa'.nodes)
               IN  \A i \in Indices(pa') :
                       LET old == get(pa, i + finalized_index).parent
                       IN  get(pa', i).parent =
                               IF old = None \/ unwrap(old) < finalized_index
                               THEN None
                               ELSE Some(unwrap(old) - finalized_index)
          ELSE \A i \in Indices(pa') \ {0} :
                   get(pa', i).parent = None =>
                       \/ i \in Indices(pa) /\ get(pa, i).parent = None
                       \/ last'.op = "on_new_block" /\ i = Len(pa.nodes)]_vars

\* Two blocks were added under the anchor and a compacting maybe_prune has
\* finalized the first: the second, which does not descend from it, is
\* retained above index 0 with parent = None.
C32_Witness ==
    /\ last.op = "maybe_prune"
    /\ last.status = "Ok"
    /\ Len(pa.nodes) = 2
    /\ pa.finalized_root = get(pa, 0).root
    /\ pa.finalized_root # genesis_block_root
    /\ get(pa, 0).parent = None
    /\ get(pa, 1).parent = None

\* ------------------------------------------------------------------ C33

\* The stored nodes of after are those of self from index f on: same order,
\* roots and epochs.
NodesFrom(self, after, f) ==
    /\ Len(after.nodes) = Len(self.nodes) - f
    /\ \A i \in Indices(after) :
           /\ get(after, i).root = get(self, i + f).root
           /\ get(after, i).justified_epoch = get(self, i + f).justified_epoch
           /\ get(after, i).finalized_epoch = get(self, i + f).finalized_epoch

\* Count, order, roots, parents and epochs of the nodes and the whole index
\* map are the same in self and after.
NodesUntouched(self, after) ==
    /\ NodesFrom(self, after, 0)
    /\ \A i \in Indices(self) : get(after, i).parent = get(self, i).parent
    /\ after.indices = self.indices

\* The maybe_prune step found its finalized node at an index that is not below
\* prune_threshold.
AtOrAboveThreshold ==
    /\ last'.op = "maybe_prune"
    /\ last'.status = "Ok"
    /\ pa'.finalized_root \in DOMAIN pa.indices
    /\ pa.indices[pa'.finalized_root] >= pa.prune_threshold

\* C33: the stored nodes shrink only in a maybe_prune whose finalized node
\* index is at least prune_threshold, which loses exactly the nodes before
\* that index; any other maybe_prune, every apply_score_changes and every
\* find_head leave the nodes' count, order, roots, parents and epochs and the
\* index map as they were.
C33_NodeLifecycle ==
    [][/\ AtOrAboveThreshold =>
              NodesFrom(pa, pa', pa.indices[pa'.finalized_root])
       /\ (/\ last'.op \in {"maybe_prune", "apply_score_changes", "find_head"}
           /\ ~AtOrAboveThreshold) => NodesUntouched(pa, pa')
       /\ Len(pa'.nodes) < Len(pa.nodes) => AtOrAboveThreshold]_vars

\* A compacting maybe_prune has left the finalized node alone in the array,
\* with the flag it raised still set.
C33_Witness ==
    /\ last.op = "maybe_prune"
    /\ last.status = "Ok"
    /\ Len(pa.nodes) = 1
    /\ get(pa, 0).root = pa.finalized_root
    /\ pa.finalized_root # genesis_block_root
    /\ DOMAIN pa.indices = {pa.finalized_root}
    /\ pa.ffg_update_required

\* ------------------------------------------------------------------ C34

\* The order the tiebreak is said to be: heavier first, then the larger root.
heavier_or_larger_root(a, b) ==
    \/ a.weight > b.weight
    \/ a.weight = b.weight /\ a.root >= b.root

\* The stored nodes with their weight and root replaced by any in the bounds.
NodeVariants(self) ==
    {[self.nodes[k] EXCEPT !.weight = w, !.root = r] :
        k \in DOMAIN self.nodes, w \in 0..MaxWeight, r \in Roots}

\* C34: a.is_better_than(b) holds iff a is heavier, or as heavy with a root
\* that is not smaller; it is reflexive, and of two nodes with distinct roots
\* exactly one is better than the other.
C34_TiebreakOrder ==
    \A a \in NodeVariants(pa), b \in NodeVariants(pa) :
        /\ is_better_than(a, b) <=> heavier_or_larger_root(a, b)
        /\ is_better_than(a, a)
        /\ a.root # b.root => (is_better_than(a, b) <=> ~is_better_than(b, a))

\* The engine holds two nodes of equal weight and distinct roots and two nodes
\* of distinct weights, the lighter with the larger root.
C34_Witness ==
    /\ \E i, j \in Indices(pa) :
           /\ get(pa, i).weight = get(pa, j).weight
           /\ get(pa, i).root > get(pa, j).root
           /\ is_better_than(get(pa, i), get(pa, j))
    /\ \E i, j \in Indices(pa) :
           /\ get(pa, i).weight > get(pa, j).weight
           /\ get(pa, i).root < get(pa, j).root
           /\ is_better_than(get(pa, i), get(pa, j))

\* ------------------------------------------------------------------ C35

\* No node's best_child or best_descendant is an index at or below its own,
\* and every index-map value is the place of a node with that root: a
\* compaction that retains the holder retains what it points at.
PointsForward(self) ==
    /\ \A i \in Indices(self) :
           /\ get(self, i).best_child # None =>
                  unwrap(get(self, i).best_child) > i
           /\ get(self, i).best_descendant # None =>
                  unwrap(get(self, i).best_descendant) > i
    /\ \A r \in DOMAIN self.indices :
           /\ self.indices[r] \in Indices(self)
           /\ get(self, self.indices[r]).root = r

\* C35: from the engine that holds only the anchor, no sequence of
\* on_new_block, apply_score_changes and maybe_prune calls makes maybe_prune
\* fail with IndexOverflow: best_child, best_descendant and index-map values of
\* retained nodes are never below the finalized index.
C35_NoIndexOverflow ==
    /\ last.status # "IndexOverflow"
    /\ PointsForward(pa)
    /\ \A finalized_epoch \in Epochs, finalized_root \in Roots,
          visited \in Visits(pa) :
           maybe_prune(pa, finalized_epoch, finalized_root, visited).result.status
               # "IndexOverflow"

\* A compacting maybe_prune has re-based the best_child and best_descendant of
\* the finalized node, which it retained with a child.
C35_Witness ==
    /\ last.op = "maybe_prune"
    /\ last.status = "Ok"
    /\ Len(pa.nodes) >= 2
    /\ get(pa, 0).root = pa.finalized_root
    /\ pa.finalized_root # genesis_block_root
    /\ get(pa, 0).best_child = Some(1)
    /\ get(pa, 0).best_descendant = Some(1)
    /\ get(pa, 1).parent = Some(0)

\* ------------------------------------------------------------------ C36

\* best_child and best_descendant of node i are both absent or both present;
\* the best child is a stored node whose parent is i; the best descendant is a
\* stored node other than i that reaches i through parent links.
WellFormedPointers(self, i) ==
    LET node == get(self, i) IN
    /\ node.best_child = None <=> node.best_descendant = None
    /\ node.best_child # None =>
           /\ unwrap(node.best_child) \in Indices(self)
           /\ get(self, unwrap(node.best_child)).parent = Some(i)
    /\ node.best_descendant # None =>
           /\ unwrap(node.best_descendant) \in Indices(self)
           /\ unwrap(node.best_descendant) # i
           /\ in_subtree(self, i, unwrap(node.best_descendant))

\* C36: after every public mutation best_child[i] is None iff
\* best_descendant[i] is None, a best child is in range and a child of i, and
\* a best descendant is in range and a strict descendant of i; so find_head
\* never fails with InvalidBestDescendant and returns a block in the subtree
\* of its start node.
C36_PointerWellFormed ==
    /\ \A i \in Indices(pa) : WellFormedPointers(pa, i)
    /\ \A justified_root \in Roots :
           LET r == find_head(pa, justified_root)
           IN  /\ r.status # "InvalidBestDescendant"
               /\ r.status = "Ok" =>
                      \E d \in subtree(pa, pa.indices[justified_root]) :
                          get(pa, d).root = unwrap(r.value)

\* A node has a best child with a child of its own, and its best descendant
\* is that grandchild.
C36_Witness ==
    \E i \in Indices(pa) :
        /\ get(pa, i).best_child # None
        /\ get(pa, i).best_descendant # None
        /\ get(pa, i).best_descendant # get(pa, i).best_child
        /\ get(pa, unwrap(get(pa, i).best_child)).best_child
               = get(pa, i).best_descendant
        /\ find_head(pa, get(pa, i).root).status = "Ok"

\* ------------------------------------------------------------------ C37

\* C37: a maybe_prune call that returns an error leaves finalized_epoch,
\* finalized_root, the FFG-update-required flag, nodes and indices as they
\* were before the call.
C37_PruneAtomicOnFailure ==
    [][(last'.op = "maybe_prune" /\ last'.status # "Ok") =>
          /\ pa'.finalized_epoch = pa.finalized_epoch
          /\ pa'.finalized_root = pa.finalized_root
          /\ pa'.ffg_update_required = pa.ffg_update_required
          /\ pa'.nodes = pa.nodes
          /\ pa'.indices = pa.indices]_vars

====
